---- MODULE Spec2Model ----
(***************************************************************************)
(* Model of the SyncLedger PDF micro-service core:                         *)
(*   - MappingEngine (services/mapping_engine.py): profile registry,       *)
(*     select_profile, apply_mapping and its helpers;                      *)
(*   - AIExtractionService (services/ai_extraction_service.py): the        *)
(*     three-tier extraction cascade and ai_to_invoice_data;               *)
(*   - FieldParser.parse / parse_with_line_items / _calculate_confidence   *)
(*     (services/field_parser.py) as far as they post-process the fields   *)
(*     found by the regular expressions.                                   *)
(*                                                                         *)
(* Conventions.  Python scalars are records [t, s, n]: t is the Python     *)
(* type ("none", "str", "date", "dec", "float", "int", "bool"), s the      *)
(* text of a str, n the number: a day number for a date (day 0 is Monday   *)
(* 2024-01-01), cents for a Decimal or a float amount, thousandths for a   *)
(* confidence, 0/1 for a bool.  An Optional enumeration member is its      *)
(* string value, or NoneS for None.                                        *)
(***************************************************************************)
EXTENDS Integers, Sequences, FiniteSets, TLC

VARIABLES
    profiles,      \* MappingEngine._profiles, in dict insertion order
    today,         \* the calendar day date.today() returns
    sel,           \* the last select_profile call on the registry as it is now
    args,          \* the arguments an apply_mapping caller holds
    res,           \* the last apply_mapping call: arguments and outcome
    prev,          \* the apply_mapping call before it, when res repeats it
    svc,           \* AIExtractionService: flags, client, counters
    env,           \* process environment at initialize(): key, import
    pc,            \* position of the extract() coroutine
    inp,           \* arguments of the running extract(): text, regex output
    result,        \* the AIExtractionResult being built by extract()
    oracle,        \* what each oracle tier answered in this extract()
    log,           \* oracle call events of this extract(), in order
    doc            \* the last InvoiceData handed to a caller, with its path

mvars == <<profiles, today, sel, args, res, prev>>
cvars == <<svc, env, pc, inp, result, oracle, log, doc>>
vars == <<profiles, today, sel, args, res, prev, svc, env, pc, inp, result, oracle, log, doc>>

-----------------------------------------------------------------------------
(* Python values *)

NoneS == "<None>"

None == [t |-> "none", s |-> "", n |-> 0]
Str(x) == [t |-> "str", s |-> x, n |-> 0]
Date(d) == [t |-> "date", s |-> "", n |-> d]
Dec(c) == [t |-> "dec", s |-> "", n |-> c]
Float(c) == [t |-> "float", s |-> "", n |-> c]
IntV(i) == [t |-> "int", s |-> "", n |-> i]
Bool(b) == [t |-> "bool", s |-> "", n |-> IF b THEN 1 ELSE 0]

IsNone(v) == v.t = "none"

\* Python truthiness of a scalar: None, "", 0, Decimal(0), 0.0, False are falsy.
Truthy(v) ==
    CASE v.t = "none" -> FALSE
      [] v.t = "str" -> v.s # ""
      [] v.t = "date" -> TRUE
      [] OTHER -> v.n # 0

\* dict.get(key): the value, or None for a missing key.
Get(d, k) == IF k \in DOMAIN d THEN d[k] ELSE None

\* dict.get(key, default)
GetOr(d, k, dflt) == IF k \in DOMAIN d THEN d[k] ELSE dflt

\* a or b
Or(a, b) == IF Truthy(a) THEN a ELSE b

-----------------------------------------------------------------------------
(* Calendar: datetime.date as a day number, day 0 = Monday 2024-01-01 *)

IsLeap(y) == (y % 4 = 0 /\ y % 100 # 0) \/ y % 400 = 0

DaysInYear(y) == IF IsLeap(y) THEN 366 ELSE 365

\* calendar.monthrange(year, month)[1]
DaysInMonth(y, m) ==
    CASE m \in {1, 3, 5, 7, 8, 10, 12} -> 31
      [] m \in {4, 6, 9, 11} -> 30
      [] OTHER -> IF IsLeap(y) THEN 29 ELSE 28

RECURSIVE YearOf(_, _)
YearOf(d, y) == IF d < DaysInYear(y) THEN <<y, d>> ELSE YearOf(d - DaysInYear(y), y + 1)

RECURSIVE MonthOf(_, _, _)
MonthOf(y, d, m) ==
    IF d < DaysInMonth(y, m) THEN <<m, d + 1>> ELSE MonthOf(y, d - DaysInMonth(y, m), m + 1)

\* (year, month, day) of a day number
YMD(d) ==
    LET yd == YearOf(d, 2024)
        md == MonthOf(yd[1], yd[2], 1)
    IN  <<yd[1], md[1], md[2]>>

RECURSIVE DaysBeforeYear(_)
DaysBeforeYear(y) == IF y = 2024 THEN 0 ELSE DaysBeforeYear(y - 1) + DaysInYear(y - 1)

RECURSIVE DaysBeforeMonth(_, _)
DaysBeforeMonth(y, m) == IF m = 1 THEN 0 ELSE DaysBeforeMonth(y, m - 1) + DaysInMonth(y, m - 1)

\* the day number of date(y, m, dd)
DayNumber(y, m, dd) == DaysBeforeYear(y) + DaysBeforeMonth(y, m) + (dd - 1)

\* date.weekday(): 0 = Monday ... 6 = Sunday
Weekday(d) == d % 7

-----------------------------------------------------------------------------
(* Text conversions used by the mapping engine.  A str is an atom here, so  *)
(* each parser is given by what it returns on the texts the model uses; a   *)
(* text outside these tables is an evaluation error, never a guess.         *)

\* dateutil.parser.parse(text).date(): <<TRUE, day>> or <<FALSE, 0>> when it raises.
ParseDate(text) ==
    CASE text = "2024-03-06" -> <<TRUE, DayNumber(2024, 3, 6)>>
      [] text = "2024-03-08" -> <<TRUE, DayNumber(2024, 3, 8)>>
      [] text \in {"abc", "", "MGD Construction Services", "Acme Supply Inc", "PO1", "INV1"}
            -> <<FALSE, 0>>

\* Decimal(text.replace(",", "").replace("$", "")) in cents:
\* <<TRUE, cents>> or <<FALSE, 0>> on InvalidOperation.
ParseDecimal(text) ==
    CASE text = "5100" -> <<TRUE, 510000>>
      [] text = "5000" -> <<TRUE, 500000>>
      [] text = "0" -> <<TRUE, 0>>
      [] text = "$1,234.56" -> <<TRUE, 123456>>
      [] text \in {"abc", "", "2024-03-06", "2024-03-08", "MGD Construction Services",
                   "Acme Supply Inc", "PO1", "INV1"} -> <<FALSE, 0>>

\* str(value): the text of a str is itself; the text of any other value is
\* kept as the pair of its type and number (its printed form determines both).
StrOf(v) == IF v.t = "str" THEN v ELSE [t |-> "str", s |-> v.t, n |-> v.n]

-----------------------------------------------------------------------------
(* models/mapping_config.py: enumerations and rules *)

MappingSourceField ==
    {"po_number", "invoice_number", "order_date", "invoice_date", "due_date",
     "approved_date", "total", "subtotal", "tax_amount", "vendor_name",
     "vendor_address", "vendor_email", "vendor_phone", "project_number",
     "sale_number", "opportunity_number", "market_segment", "product_category",
     "created_by", "line_description", "line_quantity", "line_unit_price", "line_total"}

MappingTargetField ==
    {"invoice_number", "po_number", "total_amount", "subtotal", "tax_amount",
     "invoice_date", "due_date", "vendor_name", "vendor_address", "vendor_email",
     "vendor_phone", "gl_account", "project", "item", "location", "cost_center"}

DateTransform ==
    {"none", "next_friday", "next_monday", "add_30_days", "add_60_days",
     "add_90_days", "end_of_month"}

\* FieldMappingRule(...) with the defaults of the class for the fields not given
FieldMappingRule(target, source, fallback, dflt, transform, tsource, required) ==
    [target_field |-> target, source_field |-> source, default_value |-> dflt,
     fallback_source |-> fallback, date_transform |-> transform,
     date_transform_source |-> tsource, is_required |-> required]

-----------------------------------------------------------------------------
(* MappingEngine: date transforms *)

\* _next_weekday as it would be if a base date on the weekday were kept.
NextWeekdayOrSameDay(d, weekday) ==
    LET days_ahead == weekday - Weekday(d)
    IN  d + (IF days_ahead < 0 THEN days_ahead + 7 ELSE days_ahead)

\* _next_weekday(d, weekday)
NextWeekday(d, weekday) ==
    LET days_ahead == weekday - Weekday(d)
    IN  d + (IF days_ahead <= 0 THEN days_ahead + 7 ELSE days_ahead)

\* base_date.replace(day=calendar.monthrange(year, month)[1])
EndOfMonth(d) ==
    LET ymd == YMD(d) IN DayNumber(ymd[1], ymd[2], DaysInMonth(ymd[1], ymd[2]))

\* Lines 306-315: a str base date is parsed, and anything that is not a date
\* by then (or does not parse) is replaced by date.today().
CoerceBaseDate(base_date, now) ==
    CASE base_date.t = "date" -> base_date.n
      [] base_date.t = "str" -> IF ParseDate(base_date.s)[1] THEN ParseDate(base_date.s)[2] ELSE now
      [] OTHER -> now

\* The choice of the base date as it would be if the resolved value came first.
PickBaseDateCurrentFirst(from_source, current_value, now) ==
    IF ~IsNone(current_value) THEN current_value
    ELSE IF ~IsNone(from_source) THEN from_source
    ELSE Date(now)

\* Lines 299-304: the current value when the transform source gave nothing,
\* today when both are None.
PickBaseDate(from_source, current_value, now) ==
    IF ~IsNone(from_source) THEN from_source
    ELSE IF ~IsNone(current_value) THEN current_value
    ELSE Date(now)

\* The base date as it would be if the transform source were not read.
TransformBaseDateFromCurrent(current_value, transform_source, raw_fields, now) ==
    CoerceBaseDate(PickBaseDate(None, current_value, now), now)

\* The base date _apply_date_transform settles on (lines 294-315).
TransformBaseDate(current_value, transform_source, raw_fields, now) ==
    CoerceBaseDate(
        PickBaseDate(IF transform_source # NoneS /\ transform_source # ""
                     THEN Get(raw_fields, transform_source) ELSE None,
                     current_value, now),
        now)

\* Lines 317-332: the transform applied to the base date.
TransformFrom(base_date, current_value, transform) ==
    CASE transform = "next_friday" -> Date(NextWeekday(base_date, 4))
      [] transform = "next_monday" -> Date(NextWeekday(base_date, 0))
      [] transform = "add_30_days" -> Date(base_date + 30)
      [] transform = "add_60_days" -> Date(base_date + 60)
      [] transform = "add_90_days" -> Date(base_date + 90)
      [] transform = "end_of_month" -> Date(EndOfMonth(base_date))
      [] OTHER -> IF current_value.t = "date" THEN current_value ELSE None

\* _apply_date_transform(current_value, transform, transform_source, raw_fields)
ApplyDateTransform(current_value, transform, transform_source, raw_fields, now) ==
    TransformFrom(TransformBaseDate(current_value, transform_source, raw_fields, now),
                  current_value, transform)

-----------------------------------------------------------------------------
(* MappingEngine._resolve_value_traced *)

HasTransform(rule) == rule.date_transform # NoneS /\ rule.date_transform # "none"

\* Steps 1 and 2: primary source, then fallback source.  [value, actual_source]
LookupSources(rule, raw_fields) ==
    LET v1 == IF rule.source_field # NoneS THEN Get(raw_fields, rule.source_field) ELSE None
        s1 == IF ~IsNone(v1) THEN <<rule.source_field>> ELSE <<>>
        try2 == IsNone(v1) /\ rule.fallback_source # NoneS
        v2 == IF try2 THEN Get(raw_fields, rule.fallback_source) ELSE v1
        s2 == IF try2 /\ ~IsNone(v2) THEN <<rule.fallback_source>> ELSE s1
    IN  [value |-> v2, actual_source |-> s2]

\* Step 3 as it would be if the transform were applied only to a value the
\* sources gave.
TransformStepOnValue(rule, raw_fields, now, looked) ==
    IF HasTransform(rule) /\ ~IsNone(looked.value)
    THEN [value |-> ApplyDateTransform(looked.value, rule.date_transform,
                                       rule.date_transform_source, raw_fields, now),
          actual_source |-> looked.actual_source \o <<"->", rule.date_transform>>]
    ELSE looked

\* Step 3: the date transform, when one is configured.
TransformStep(rule, raw_fields, now, looked) ==
    IF HasTransform(rule)
    THEN LET src == IF rule.date_transform_source # NoneS
                    THEN <<rule.date_transform_source>> ELSE looked.actual_source
         IN  [value |-> ApplyDateTransform(looked.value, rule.date_transform,
                                           rule.date_transform_source, raw_fields, now),
              actual_source |-> IF src # <<>> THEN src \o <<"->", rule.date_transform>>
                                ELSE <<rule.date_transform>>]
    ELSE looked

\* Step 4 as it would be if the default were applied whenever one is set.
DefaultStepAlways(rule, transformed) ==
    IF ~IsNone(rule.default_value)
    THEN [value |-> rule.default_value,
          actual_source |-> <<"default", rule.default_value.s>>]
    ELSE transformed

\* Step 4: the literal default, when the value is still None.
DefaultStep(rule, transformed) ==
    IF IsNone(transformed.value) /\ ~IsNone(rule.default_value)
    THEN [value |-> rule.default_value,
          actual_source |-> <<"default", rule.default_value.s>>]
    ELSE transformed

ResolveValueTraced(rule, raw_fields, now) ==
    DefaultStep(rule, TransformStep(rule, raw_fields, now, LookupSources(rule, raw_fields)))

-----------------------------------------------------------------------------
(* models/invoice_data.py: the pydantic models.  A model keeps the fields   *)
(* its class declares and ignores any other keyword it is constructed with; *)
(* reading or writing an attribute the class does not declare raises.       *)

LineItemFields ==
    {"line_number", "description", "item_code", "quantity", "unit", "unit_price",
     "tax_rate", "tax_amount", "discount_amount", "line_total"}

VendorInfoFields == {"name", "address", "email", "phone", "tax_id", "website"}

InvoiceDataFields ==
    {"invoice_number", "po_number", "vendor", "invoice_date", "due_date", "subtotal",
     "tax_amount", "discount_amount", "shipping_amount", "total_amount", "currency",
     "line_items", "payment_terms", "bank_details", "confidence_score",
     "requires_manual_review", "raw_text"}

\* LineItem(**kwargs)
LineItem(kwargs) == [f \in LineItemFields |-> GetOr(kwargs, f, None)]

\* VendorInfo(**kwargs)
VendorInfo(kwargs) == [f \in VendorInfoFields |-> GetOr(kwargs, f, None)]

\* InvoiceData(**kwargs), with the defaults of the class
InvoiceData(kwargs) ==
    [f \in InvoiceDataFields |->
        IF f \in DOMAIN kwargs THEN kwargs[f]
        ELSE CASE f = "vendor" -> VendorInfo([k \in {} |-> None])
               [] f = "currency" -> Str("USD")
               [] f = "line_items" -> <<>>
               [] f = "confidence_score" -> Float(0)
               [] f = "requires_manual_review" -> Bool(FALSE)
               [] OTHER -> None]

\* hasattr(obj, name)
HasAttr(obj, name) == name \in DOMAIN obj

-----------------------------------------------------------------------------
(* MappingEngine.apply_mapping *)

EmptyDict == [k \in {} |-> None]

\* d[k] = v
DictSet(d, k, v) == [x \in DOMAIN d \cup {k} |-> IF x = k THEN v ELSE d[x]]

\* One pass of the loop body at lines 185-201 for rule, on the accumulators.
\* Lines 190-201: what the loop body records once the rule is resolved to r.
RecordResolved(acc, rule, r) ==
    IF ~IsNone(r.value)
    THEN [acc EXCEPT
            !.mapped = DictSet(acc.mapped, rule.target_field, r.value),
            !.field_mappings = Append(acc.field_mappings,
                [target |-> rule.target_field, source |-> r.actual_source,
                 value |-> StrOf(r.value)])]
    ELSE IF rule.is_required
         THEN [acc EXCEPT !.unmapped = Append(acc.unmapped, rule.target_field)]
         ELSE acc

ApplyRule(acc, rule, raw_fields, now) ==
    RecordResolved(acc, rule, ResolveValueTraced(rule, raw_fields, now))

\* The loop as it would be if it stopped at the first required rule left unmapped.
RECURSIVE RuleLoopUntilUnmapped(_, _, _, _, _)
RuleLoopUntilUnmapped(acc, rules, i, raw_fields, now) ==
    IF i > Len(rules) \/ acc.unmapped # <<>> THEN acc
    ELSE RuleLoopUntilUnmapped(ApplyRule(acc, rules[i], raw_fields, now),
                               rules, i + 1, raw_fields, now)

RECURSIVE RuleLoopFrom(_, _, _, _, _)
RuleLoopFrom(acc, rules, i, raw_fields, now) ==
    IF i > Len(rules) THEN acc
    ELSE RuleLoopFrom(ApplyRule(acc, rules[i], raw_fields, now), rules, i + 1, raw_fields, now)

\* The loop as it would be if the accumulators outlived the call.
RuleLoopShared(rules, raw_fields, now) ==
    RuleLoopFrom(IF res.op = "apply"
                 THEN [mapped |-> res.out.ret.mapped_fields,
                       unmapped |-> res.out.ret.unmapped_required,
                       field_mappings |-> res.out.ret.field_mappings]
                 ELSE [mapped |-> EmptyDict, unmapped |-> <<>>, field_mappings |-> <<>>],
                 rules, 1, raw_fields, now)

\* for rule in profile.rules: ... (lines 181-201)
RuleLoop(rules, raw_fields, now) ==
    RuleLoopFrom([mapped |-> EmptyDict, unmapped |-> <<>>, field_mappings |-> <<>>],
                 rules, 1, raw_fields, now)

\* Lines 204-208: the GL account back-fill on the caller's line items.
\* The loop reads item.gl_account_code of the first item before anything is written.
BackfillGL(gl_account, line_items) ==
    IF Truthy(gl_account) /\ line_items # <<>>
    THEN IF \E i \in 1..Len(line_items) : ~HasAttr(line_items[i], "gl_account_code")
         THEN [raised |-> "AttributeError", line_items |-> line_items]
         ELSE [raised |-> "",
               line_items |-> [i \in 1..Len(line_items) |->
                    IF ~Truthy(line_items[i]["gl_account_code"])
                    THEN [line_items[i] EXCEPT !["gl_account_code"] = gl_account]
                    ELSE line_items[i]]]
    ELSE [raised |-> "", line_items |-> line_items]

\* get_decimal(key) of _build_invoice_data
GetDecimal(mapped, key) ==
    LET val == Get(mapped, key)
    IN  CASE val.t = "none" -> None
          [] val.t = "dec" -> val
          [] val.t = "str" -> IF ParseDecimal(val.s)[1] THEN Dec(ParseDecimal(val.s)[2]) ELSE None
          [] val.t \in {"int", "float"} -> Dec(val.n)
          [] OTHER -> None     \* str(date), str(bool): InvalidOperation

\* get_date(key) of _build_invoice_data
GetDate(mapped, key) ==
    LET val == Get(mapped, key)
    IN  CASE val.t = "date" -> val
          [] val.t = "str" -> IF ParseDate(val.s)[1] THEN Date(ParseDate(val.s)[2]) ELSE None
          [] OTHER -> None

\* get_str(key) of _build_invoice_data
GetStr(mapped, key) ==
    LET val == Get(mapped, key) IN IF IsNone(val) THEN None ELSE StrOf(val)

\* _build_invoice_data(mapped, line_items, raw_fields)
BuildInvoiceData(mapped, line_items, raw_fields) ==
    LET total == GetDecimal(mapped, "total_amount")
        sub0 == GetDecimal(mapped, "subtotal")
        tax == GetDecimal(mapped, "tax_amount")
        subtotal == IF IsNone(sub0) /\ ~IsNone(total) /\ (IsNone(tax) \/ tax.n = 0)
                    THEN total ELSE sub0
    IN  InvoiceData(
          [invoice_number |-> GetStr(mapped, "invoice_number"),
           po_number |-> GetStr(mapped, "po_number"),
           vendor |-> VendorInfo([name |-> GetStr(mapped, "vendor_name"),
                                  address |-> GetStr(mapped, "vendor_address"),
                                  email |-> GetStr(mapped, "vendor_email"),
                                  phone |-> GetStr(mapped, "vendor_phone")]),
           invoice_date |-> GetDate(mapped, "invoice_date"),
           due_date |-> GetDate(mapped, "due_date"),
           subtotal |-> subtotal,
           tax_amount |-> tax,
           total_amount |-> total,
           line_items |-> line_items,
           gl_account |-> GetStr(mapped, "gl_account"),
           project |-> GetStr(mapped, "project"),
           item_category |-> GetStr(mapped, "item"),
           location |-> GetStr(mapped, "location"),
           confidence_score |-> GetOr(raw_fields, "confidence_score", Float(0)),
           requires_manual_review |-> GetOr(raw_fields, "requires_manual_review", Bool(FALSE)),
           raw_text |-> Get(raw_fields, "raw_text")])

NoResult ==
    [invoice_data |-> InvoiceData(EmptyDict), mapped_fields |-> EmptyDict,
     unmapped_required |-> <<>>, field_mappings |-> <<>>, gl_account |-> None,
     project |-> None, item |-> None, location |-> None, cost_center |-> None]

\* mapped.get(KEY.value) or mapped.get("key"): both spell the same key
\* (lines 204, 220-223)
Dimension(mapped, key) == Or(Get(mapped, key), Get(mapped, key))

\* Lines 210-224: the result built from the loop's accumulators.
BuildResult(acc, line_items, raw_fields) ==
    [invoice_data |-> BuildInvoiceData(acc.mapped, line_items, raw_fields),
     mapped_fields |-> acc.mapped,
     unmapped_required |-> acc.unmapped,
     field_mappings |-> acc.field_mappings,
     gl_account |-> Dimension(acc.mapped, "gl_account"),
     project |-> Dimension(acc.mapped, "project"),
     item |-> Dimension(acc.mapped, "item"),
     location |-> Dimension(acc.mapped, "location"),
     cost_center |-> Dimension(acc.mapped, "cost_center")]

\* Lines 210-224 after the back-fill: nothing is built when it raised.
AfterBackfill(acc, filled, raw_fields) ==
    IF filled.raised # ""
    THEN [raised |-> filled.raised, line_items |-> filled.line_items, ret |-> NoResult]
    ELSE [raised |-> "", line_items |-> filled.line_items,
          ret |-> BuildResult(acc, filled.line_items, raw_fields)]

\* Lines 203-224 on the accumulators the rule loop left.
AfterRuleLoop(acc, raw_fields, line_items) ==
    AfterBackfill(acc, BackfillGL(Dimension(acc.mapped, "gl_account"), line_items), raw_fields)

\* apply_mapping(raw_fields, line_items, profile=profile), lines 181-224:
\* what it raises ("" when it returns), the MappedInvoiceResult it returns and
\* the caller's line items afterwards (the list is mutated in place).
ApplyMappingWith(rules, raw_fields, line_items, now) ==
    AfterRuleLoop(RuleLoop(rules, raw_fields, now), raw_fields, line_items)

-----------------------------------------------------------------------------
(* models/mapping_config.py: the built-in profiles *)

\* Optional[int] organization_id = None
NoOrg == -1

InvoiceMappingProfile(id, pattern, is_default, org, rules) ==
    [id |-> id, vendor_pattern |-> pattern, is_default |-> is_default,
     organization_id |-> org, rules |-> rules]

BuiltinVendorPattern == "(?i)MGD|Master\\s+Gutters|Mayan.?s\\s+Construction"

\* get_default_subcontractor_profile()
DefaultSubcontractorProfile ==
    InvoiceMappingProfile("default-subcontractor", Str(BuiltinVendorPattern), TRUE, NoOrg,
      << FieldMappingRule("invoice_number", "po_number", "invoice_number", None, NoneS, NoneS, TRUE),
         FieldMappingRule("total_amount", "total", NoneS, None, NoneS, NoneS, TRUE),
         FieldMappingRule("due_date", "due_date", NoneS, None, "next_friday", "order_date", FALSE),
         FieldMappingRule("gl_account", NoneS, NoneS, Str("5100"), NoneS, NoneS, FALSE),
         FieldMappingRule("project", "opportunity_number", "project_number", None, NoneS, NoneS, FALSE),
         FieldMappingRule("item", "product_category", "market_segment", None, NoneS, NoneS, FALSE),
         FieldMappingRule("location", "vendor_address", NoneS, None, NoneS, NoneS, FALSE),
         FieldMappingRule("subtotal", "subtotal", NoneS, None, NoneS, NoneS, FALSE),
         FieldMappingRule("tax_amount", "tax_amount", NoneS, Str("0"), NoneS, NoneS, FALSE),
         FieldMappingRule("invoice_date", "order_date", "invoice_date", None, NoneS, NoneS, FALSE),
         FieldMappingRule("vendor_name", "vendor_name", NoneS, None, NoneS, NoneS, TRUE),
         FieldMappingRule("vendor_address", "vendor_address", NoneS, None, NoneS, NoneS, FALSE),
         FieldMappingRule("vendor_email", "vendor_email", NoneS, None, NoneS, NoneS, FALSE),
         FieldMappingRule("vendor_phone", "vendor_phone", NoneS, None, NoneS, NoneS, FALSE),
         FieldMappingRule("po_number", "po_number", NoneS, None, NoneS, NoneS, FALSE) >>)

\* get_standard_invoice_profile()
StandardInvoiceProfile ==
    InvoiceMappingProfile("standard-invoice", None, FALSE, NoOrg,
      << FieldMappingRule("invoice_number", "invoice_number", "po_number", None, NoneS, NoneS, TRUE),
         FieldMappingRule("po_number", "po_number", NoneS, None, NoneS, NoneS, FALSE),
         FieldMappingRule("total_amount", "total", NoneS, None, NoneS, NoneS, TRUE),
         FieldMappingRule("subtotal", "subtotal", NoneS, None, NoneS, NoneS, FALSE),
         FieldMappingRule("tax_amount", "tax_amount", NoneS, Str("0"), NoneS, NoneS, FALSE),
         FieldMappingRule("due_date", "due_date", NoneS, None, "add_30_days", "invoice_date", FALSE),
         FieldMappingRule("invoice_date", "invoice_date", "order_date", None, NoneS, NoneS, FALSE),
         FieldMappingRule("vendor_name", "vendor_name", NoneS, None, NoneS, NoneS, TRUE),
         FieldMappingRule("vendor_address", "vendor_address", NoneS, None, NoneS, NoneS, FALSE),
         FieldMappingRule("vendor_email", "vendor_email", NoneS, None, NoneS, NoneS, FALSE),
         FieldMappingRule("vendor_phone", "vendor_phone", NoneS, None, NoneS, NoneS, FALSE),
         FieldMappingRule("gl_account", NoneS, NoneS, Str("5000"), NoneS, NoneS, FALSE),
         FieldMappingRule("project", "project_number", "opportunity_number", None, NoneS, NoneS, FALSE),
         FieldMappingRule("location", "vendor_address", NoneS, None, NoneS, NoneS, FALSE) >>)

-----------------------------------------------------------------------------
(* MappingEngine: the profile registry (a dict, kept in insertion order) *)

\* __init__ / _load_builtin_profiles
BuiltinProfiles == << DefaultSubcontractorProfile, StandardInvoiceProfile >>

\* profile_id in self._profiles
Registered(reg, id) == \E i \in 1..Len(reg) : reg[i].id = id

\* self._profiles[profile_id]
Lookup(reg, id) == reg[CHOOSE i \in 1..Len(reg) : reg[i].id = id]

\* register_profile(profile): an existing key keeps its place in the dict
RegisterInto(reg, profile) ==
    IF profile.id = NoneS \/ profile.id = "" THEN reg
    ELSE IF Registered(reg, profile.id)
         THEN [i \in 1..Len(reg) |-> IF reg[i].id = profile.id THEN profile ELSE reg[i]]
         ELSE Append(reg, profile)

\* remove_profile(profile_id): the registry afterwards
RemoveFrom(reg, id) == SelectSeq(reg, LAMBDA p : p.id # id)

\* re.search(pattern, text, re.IGNORECASE): "match", "nomatch", or "error" when
\* the pattern does not compile (re.error).
ReSearch(pattern, text) ==
    CASE pattern = "(" -> "error"
      [] pattern = BuiltinVendorPattern ->
            IF text = "MGD Construction Services" THEN "match" ELSE "nomatch"
      [] pattern = "(?i)MGD|Master Gutters" ->
            IF text = "MGD Construction Services" THEN "match" ELSE "nomatch"
      [] pattern = "acme" ->
            IF text = "Acme Supply Inc" THEN "match" ELSE "nomatch"

\* The loops at lines 108-119 and 122-128: scan the registry from position i for
\* the first profile with a pattern, the wanted organization and a match.
RECURSIVE VendorScan(_, _, _, _)
VendorScan(reg, i, vendor_name, org) ==
    IF i > Len(reg) THEN [kind |-> "none", at |-> 0]
    ELSE IF Truthy(reg[i].vendor_pattern) /\ reg[i].organization_id = org
         THEN CASE ReSearch(reg[i].vendor_pattern.s, vendor_name.s) = "error"
                      -> [kind |-> "raise", at |-> i]
                [] ReSearch(reg[i].vendor_pattern.s, vendor_name.s) = "match"
                      -> [kind |-> "found", at |-> i]
                [] OTHER -> VendorScan(reg, i + 1, vendor_name, org)
         ELSE VendorScan(reg, i + 1, vendor_name, org)

\* if organization_id and profile.organization_id == organization_id
OrgDefaultTest(profile, organization_id) ==
    organization_id # NoOrg /\ organization_id # 0 /\ profile.organization_id = organization_id

\* First position from i satisfying Test, or 0.
RECURSIVE FirstDefault(_, _, _, _)
FirstDefault(reg, i, organization_id, scoped) ==
    IF i > Len(reg) THEN 0
    ELSE IF reg[i].is_default
            /\ (IF scoped THEN OrgDefaultTest(reg[i], organization_id)
                ELSE reg[i].organization_id = NoOrg)
         THEN i
         ELSE FirstDefault(reg, i + 1, organization_id, scoped)

\* select_profile(vendor_name, profile_id, organization_id):
\* [raised, profile, step], step being the numbered branch that returned.
SelectProfile(reg, vendor_name, profile_id, organization_id) ==
    LET scan1 == VendorScan(reg, 1, vendor_name, organization_id)
        scan2 == VendorScan(reg, 1, vendor_name, NoOrg)
        d1 == FirstDefault(reg, 1, organization_id, TRUE)
        d2 == FirstDefault(reg, 1, organization_id, FALSE)
        defaults ==
            IF d1 # 0 THEN [raised |-> "", profile |-> reg[d1], step |-> 4]
            ELSE IF d2 # 0 THEN [raised |-> "", profile |-> reg[d2], step |-> 5]
            ELSE [raised |-> "", profile |-> DefaultSubcontractorProfile, step |-> 6]
        failed == [raised |-> "re.error", profile |-> DefaultSubcontractorProfile, step |-> 0]
    IN  IF profile_id # NoneS /\ profile_id # "" /\ Registered(reg, profile_id)
        THEN [raised |-> "", profile |-> Lookup(reg, profile_id), step |-> 1]
        ELSE IF ~Truthy(vendor_name) THEN defaults
        ELSE IF scan1.kind = "raise" THEN failed
        ELSE IF scan1.kind = "found"
             THEN [raised |-> "", profile |-> reg[scan1.at], step |-> 2]
        ELSE IF scan2.kind = "raise" THEN failed
        ELSE IF scan2.kind = "found"
             THEN [raised |-> "", profile |-> reg[scan2.at], step |-> 3]
        ELSE defaults

-----------------------------------------------------------------------------
(* FieldParser (services/field_parser.py): what parse_with_line_items and   *)
(* parse do with the fields the regular expressions found.  The regular     *)
(* expressions themselves are the input: `found` maps each key of           *)
(* parse_raw_fields to the value its pattern list extracted, or None.       *)

\* sum(item.line_total for item in line_items if item.line_total):
\* the int 0 when no item has a truthy total, else their Decimal sum.
RECURSIVE SumCents(_, _)
SumCents(line_items, i) ==
    IF i > Len(line_items) THEN 0
    ELSE (IF Truthy(line_items[i]["line_total"]) THEN line_items[i]["line_total"].n ELSE 0)
         + SumCents(line_items, i + 1)

\* The total as it would be if it were the first item's line total alone.
FirstLineTotal(line_items) ==
    IF line_items # <<>> /\ Truthy(line_items[1]["line_total"])
    THEN Dec(line_items[1]["line_total"].n)
    ELSE IntV(0)

SumLineTotals(line_items) ==
    IF \E i \in 1..Len(line_items) : Truthy(line_items[i]["line_total"])
    THEN Dec(SumCents(line_items, 1))
    ELSE IntV(0)

\* round(num / den) to the nearest integer, ties to even (Python's round)
RoundDiv(num, den) ==
    LET q == num \div den
        r == num % den
    IN  IF 2 * r < den THEN q
        ELSE IF 2 * r > den THEN q + 1
        ELSE IF q % 2 = 0 THEN q ELSE q + 1

\* The count as it would be if it took the items that lack a quantity.
CompleteItemsWithoutQuantity(line_items) ==
    Cardinality({i \in 1..Len(line_items) :
        Truthy(line_items[i]["line_total"]) /\ ~Truthy(line_items[i]["quantity"])})

\* sum(1 for item in line_items if item.line_total and item.quantity)
CompleteItems(line_items) ==
    Cardinality({i \in 1..Len(line_items) :
        Truthy(line_items[i]["line_total"]) /\ Truthy(line_items[i]["quantity"])})

\* abs(x)
Abs(x) == IF x < 0 THEN -x ELSE x

\* abs(float(a) - float(b)) < 0.01 for two amounts in cents.  Equal amounts
\* differ by 0.0 and amounts two cents or more apart by at least 0.0199...;
\* for amounts one cent apart the double-precision difference falls on
\* either side of 0.01, and is given for the amounts the model uses:
\* 100.01 - 100.00 = 0.010000000000005116, 150.01 - 150.00 = 0.009999999999990905.
FloatDiffBelowCent(a, b) ==
    IF a = b THEN TRUE
    ELSE IF Abs(a - b) >= 2 THEN FALSE
    ELSE CASE {a, b} = {10000, 10001} -> FALSE
           [] {a, b} = {15000, 15001} -> TRUE

\* The rounding of _calculate_confidence as it would be if it cut off the
\* third decimal.
CalculateConfidenceTruncated(invoice_number, invoice_date, total, vendor_name, line_items) ==
    LET n == IF Len(line_items) > 0 THEN Len(line_items) ELSE 1
        calculated_total == SumLineTotals(line_items)
        fixed == (IF Truthy(invoice_number) THEN 250 ELSE 0)
               + (IF Truthy(invoice_date) THEN 150 ELSE 0)
               + (IF Truthy(total) THEN 250 ELSE 0)
               + (IF Truthy(vendor_name) THEN 150 ELSE 0)
               + (IF Truthy(total) /\ Len(line_items) > 0 /\ Truthy(calculated_total)
                     /\ FloatDiffBelowCent(total.n, calculated_total.n)
                  THEN 50 ELSE 0)
        scaled == fixed * n + (IF Len(line_items) > 0 THEN 200 * CompleteItems(line_items) ELSE 0)
        capped == IF scaled > 1000 * n THEN 1000 * n ELSE scaled
    IN  10 * (capped \div (10 * n))

\* _calculate_confidence(...), in thousandths.  The sum is kept exact as a
\* fraction over len(line_items) and rounded to two decimals at the end.
CalculateConfidence(invoice_number, invoice_date, total, vendor_name, line_items) ==
    LET n == IF Len(line_items) > 0 THEN Len(line_items) ELSE 1
        calculated_total == SumLineTotals(line_items)
        fixed == (IF Truthy(invoice_number) THEN 250 ELSE 0)
               + (IF Truthy(invoice_date) THEN 150 ELSE 0)
               + (IF Truthy(total) THEN 250 ELSE 0)
               + (IF Truthy(vendor_name) THEN 150 ELSE 0)
               + (IF Truthy(total) /\ Len(line_items) > 0 /\ Truthy(calculated_total)
                     /\ FloatDiffBelowCent(total.n, calculated_total.n)
                  THEN 50 ELSE 0)
        scaled == fixed * n + (IF Len(line_items) > 0 THEN 200 * CompleteItems(line_items) ELSE 0)
        capped == IF scaled > 1000 * n THEN 1000 * n ELSE scaled
    IN  10 * RoundDiv(capped, 10 * n)

\* f"PO-{po_number}"
PoPrefixed(po) == CASE po.s = "PO1" -> Str("PO-PO1")

\* parse_raw_fields(text): the dict built from what the patterns found
ParseRawFields(found) ==
    [k \in DOMAIN found \cup {"raw_text"} |->
        CASE k = "invoice_date" -> Or(found["order_date"], found["invoice_date"])
          [] k = "raw_text" -> Str("<text>")
          [] OTHER -> found[k]]

\* parse_with_line_items(text): the raw_fields it returns (the line items are
\* returned as extracted)
ParseWithLineItems(found, line_items) ==
    LET raw == ParseRawFields(found)
        invoice_number == IF ~Truthy(raw["invoice_number"]) /\ Truthy(raw["po_number"])
                          THEN PoPrefixed(raw["po_number"]) ELSE raw["invoice_number"]
        summed == ~Truthy(raw["total"]) /\ line_items # <<>>
        total == IF summed THEN SumLineTotals(line_items) ELSE raw["total"]
        confidence == CalculateConfidence(invoice_number,
                          Or(raw["order_date"], raw["invoice_date"]),
                          total, raw["vendor_name"], line_items)
    IN  [k \in DOMAIN raw \cup {"confidence_score", "requires_manual_review"} |->
            CASE k = "total" -> total
              [] k = "confidence_score" -> Float(confidence)
              [] k = "requires_manual_review" ->
                    Bool(confidence < 700 \/ IsNone(invoice_number) \/ IsNone(total))
              [] OTHER -> raw[k]]

\* parse(text): the InvoiceData of the direct-parse path
Parse(found, line_items) ==
    LET raw == ParseRawFields(found)
        invoice_number == IF ~Truthy(raw["invoice_number"]) /\ Truthy(raw["po_number"])
                          THEN PoPrefixed(raw["po_number"]) ELSE raw["invoice_number"]
        invoice_date == Or(raw["order_date"], raw["invoice_date"])
        total0 == raw["total"]
        tax == raw["tax_amount"]
        subtotal == IF ~Truthy(raw["subtotal"]) /\ Truthy(total0) /\ ~Truthy(tax)
                    THEN total0 ELSE raw["subtotal"]
        total == IF ~Truthy(total0) /\ line_items # <<>>
                 THEN SumLineTotals(line_items) ELSE total0
        confidence == CalculateConfidence(invoice_number, invoice_date, total,
                                          raw["vendor_name"], line_items)
    IN  InvoiceData(
          [invoice_number |-> invoice_number,
           po_number |-> raw["po_number"],
           vendor |-> VendorInfo([name |-> raw["vendor_name"],
                                  address |-> raw["vendor_address"],
                                  email |-> raw["vendor_email"],
                                  phone |-> raw["vendor_phone"]]),
           invoice_date |-> invoice_date,
           due_date |-> raw["due_date"],
           subtotal |-> subtotal,
           tax_amount |-> tax,
           total_amount |-> IF total.t = "int" THEN Dec(total.n) ELSE total,
           line_items |-> line_items,
           gl_account |-> Get(raw, "gl_account"),
           project |-> Or(raw["opportunity_number"], raw["project_number"]),
           item_category |-> raw["product_category"],
           location |-> raw["vendor_address"],
           confidence_score |-> Float(confidence),
           requires_manual_review |->
               Bool(confidence < 700 \/ IsNone(invoice_number) \/ IsNone(total)),
           raw_text |-> Str("<text>")])

-----------------------------------------------------------------------------
(* Inputs of the mapping engine: bounded pools *)

\* longest rule list built from CoreRules
MaxRules == 2
\* most line items of a document
MaxItems == 1
\* how many times the calendar day advances
MaxTick == 1

\* The calendar day the model starts on: Wednesday 2024-03-06.
StartDay == DayNumber(2024, 3, 6)

ParsedKeys ==
    {"po_number", "invoice_number", "order_date", "invoice_date", "due_date",
     "approved_date", "total", "subtotal", "tax_amount", "vendor_name",
     "vendor_address", "vendor_email", "vendor_phone", "project_number",
     "sale_number", "opportunity_number", "market_segment", "product_category",
     "created_by"}

\* What the patterns found in a text: the keys not listed are None.
Found(po, inv, order_date, due_date, approved, total, vendor) ==
    [k \in ParsedKeys |->
        CASE k = "po_number" -> po
          [] k = "invoice_number" -> inv
          [] k = "order_date" -> order_date
          [] k = "due_date" -> due_date
          [] k = "approved_date" -> approved
          [] k = "total" -> total
          [] k = "vendor_name" -> vendor
          [] OTHER -> None]

\* Texts that differ in the dates the patterns found.
DateFound ==
    { Found(Str("PO1"), None, od, dd, ad, Dec(15000), Str("MGD Construction Services")) :
        od \in {None, Date(DayNumber(2024, 3, 8))},
        dd \in {None, Date(DayNumber(2024, 3, 12))},
        ad \in {None, Date(DayNumber(2024, 3, 1))} }

\* Texts that differ in the PO number, the due date and the total.
TotalFound(tot) ==
    { Found(po, None, None, dd, None, tot, Str("MGD Construction Services")) :
        po \in {None, Str("PO1")},
        dd \in {None, Date(DayNumber(2024, 3, 12))} }

CoreFound == TotalFound(None) \cup TotalFound(Dec(15000))

FoundPool == DateFound \cup CoreFound

\* The i-th line item as the line-item parser numbers it; complete items carry
\* a quantity and a total, the others a total only.
ParsedItem(i, complete) ==
    LineItem([line_number |-> IntV(i), description |-> Str("Roofing labor"),
              quantity |-> IF complete THEN Dec(100) ELSE None,
              unit_price |-> IF complete THEN Dec(10000) ELSE None,
              line_total |-> IF complete THEN Dec(10000) ELSE Dec(5000)])

ItemLists == { [i \in 1..n |-> ParsedItem(i, i = 1)] : n \in 0..MaxItems }

\* Rules that are combined into lists of up to MaxRules rules.
CoreRules ==
    { FieldMappingRule("invoice_number", "po_number", "invoice_number", None, NoneS, NoneS, TRUE),
      FieldMappingRule("total_amount", NoneS, NoneS, Str("abc"), NoneS, NoneS, TRUE),
      FieldMappingRule("gl_account", NoneS, NoneS, Str("5100"), NoneS, NoneS, FALSE),
      FieldMappingRule("gl_account", NoneS, NoneS, Str("5000"), NoneS, NoneS, FALSE),
      FieldMappingRule("due_date", "due_date", NoneS, Str("2024-03-08"), "add_30_days", NoneS, TRUE) }

\* Every shape of a single rule on a date target: each of source, fallback,
\* default, transform and transform source present or absent.
VariantRules ==
    { FieldMappingRule("due_date", src, fb, dflt, tr, ts, req) :
        src \in {NoneS, "due_date"}, fb \in {NoneS, "approved_date"},
        dflt \in {None, Str("2024-03-06"), Str("abc")},
        tr \in {NoneS, "none", "next_friday", "end_of_month"},
        ts \in {NoneS, "order_date"}, req \in BOOLEAN }

\* Rule lists of up to MaxRules core rules, and the two built-in rule lists.
RuleLists ==
    UNION { [1..n -> CoreRules] : n \in 1..MaxRules }
    \cup { DefaultSubcontractorProfile.rules, StandardInvoiceProfile.rules }

Orgs == {NoOrg, 0, 1, 2}

-----------------------------------------------------------------------------
(* The mapping engine as a state machine *)

NoCall == [op |-> "none"]

NoSelect == [op |-> "none"]

\* The arguments of a call with a profile object.
ProfileArgs(rules, found, items) ==
    [via |-> "profile", rules |-> rules, profile_id |-> NoneS, organization_id |-> NoOrg,
     raw_fields |-> ParseWithLineItems(found, items), line_items |-> items]

\* The arguments of a call that leaves the profile to select_profile.
SelectArgs(pid, org, found, items) ==
    [via |-> "select", rules |-> <<>>, profile_id |-> pid, organization_id |-> org,
     raw_fields |-> ParseWithLineItems(found, items), line_items |-> items]

\* The arguments an apply_mapping caller holds: the output of
\* parse_with_line_items, and either a profile object or a profile id and an
\* organization for select_profile.
MappingArgs ==
    { ProfileArgs(<<r>>, found, <<>>) : r \in VariantRules, found \in DateFound }
    \cup { ProfileArgs(rules, found, items) :
                rules \in RuleLists, found \in TotalFound(Dec(15000)), items \in ItemLists }
    \cup { SelectArgs(pid, org, found, items) :
                pid \in {NoneS, "standard-invoice", "custom-a"}, org \in {NoOrg, 1},
                found \in CoreFound, items \in ItemLists }

\* The extraction service as constructed, no extract() running: the mapping
\* engine does not depend on it.
CascadeIdle ==
    /\ svc = [initialized |-> FALSE, client |-> NoneS, enable_vision |-> TRUE,
              enable_text_llm |-> TRUE, enable_cross_validation |-> TRUE,
              total_cost |-> 0, total_extractions |-> 0]
    /\ env = [OPENAI_API_KEY |-> NoneS, openai |-> "ok"]
    /\ pc = "idle"
    /\ inp = [raw_text |-> Str(""), regex_fields |-> EmptyDict, line_items |-> <<>>]
    /\ result = [op |-> "none"]
    /\ oracle = [tier |-> "none", kind |-> "none",
                 fields |-> [invoice_number |-> None, po_number |-> None,
                             vendor_name |-> None, total_amount |-> None],
                 extraction |-> None]
    /\ log = <<>>
    /\ doc = [path |-> "none", raised |-> "", invoice_data |-> InvoiceData(EmptyDict)]

MappingInit ==
    /\ profiles = BuiltinProfiles
    /\ today = StartDay
    /\ sel = NoSelect
    /\ args \in MappingArgs
    /\ res = NoCall
    /\ prev = NoCall
    /\ CascadeIdle

\* One apply_mapping call: what was passed, when, and what came of it.
MappingCall(via, rules, raw_fields, line_items, now, sel_raised) ==
    [op |-> "apply", via |-> via, rules |-> rules, raw_fields |-> raw_fields,
     line_items |-> line_items, now |-> now,
     out |-> IF sel_raised # ""
             THEN [raised |-> sel_raised, line_items |-> line_items, ret |-> NoResult]
             ELSE ApplyMappingWith(rules, raw_fields, line_items, now)]

\* apply_mapping(raw_fields, line_items, profile=<a profile with these rules>)
ApplyMapping ==
    /\ args.via = "profile" /\ res.op = "none"
    /\ res' = MappingCall("profile", args.rules, args.raw_fields, args.line_items, today, "")
    /\ UNCHANGED <<profiles, today, sel, args, prev, cvars>>

\* apply_mapping(raw_fields, line_items, profile_id=..., organization_id=...):
\* the profile is resolved by select_profile from the vendor name.
ApplyMappingSelected ==
    /\ args.via = "select" /\ res.op = "none"
    /\ LET s == SelectProfile(profiles, Get(args.raw_fields, "vendor_name"),
                              args.profile_id, args.organization_id)
       IN  res' = MappingCall("select", s.profile.rules, args.raw_fields, args.line_items,
                              today, s.raised)
    /\ UNCHANGED <<profiles, today, sel, args, prev, cvars>>

\* The same call again: same profile, same raw fields, the same list of line
\* items (as the first call left it), on whatever day it is by then.
RepeatMapping ==
    /\ res.op = "apply" /\ res.via = "profile" /\ prev.op = "none"
    /\ prev' = res
    /\ res' = MappingCall("profile", res.rules, res.raw_fields, res.out.line_items, today, "")
    /\ UNCHANGED <<profiles, today, sel, args, cvars>>

\* rules with the rules at positions i and i + 1 exchanged
SwapRules(rules, i) ==
    [j \in 1..Len(rules) |->
        IF j = i THEN rules[i + 1] ELSE IF j = i + 1 THEN rules[i] ELSE rules[j]]

\* The call again with the same raw fields and line items and a profile whose
\* rule list has two neighbouring rules exchanged.
RemapReordered ==
    /\ res.op = "apply" /\ res.via = "profile" /\ prev.op = "none"
    /\ \E i \in 1..(Len(res.rules) - 1) :
          res' = MappingCall("profile", SwapRules(res.rules, i), res.raw_fields,
                             res.out.line_items, today, "")
    /\ prev' = res
    /\ UNCHANGED <<profiles, today, sel, args, cvars>>

\* Midnight passes.
Tick ==
    /\ today < StartDay + MaxTick
    /\ today' = today + 1
    /\ UNCHANGED <<profiles, sel, args, res, prev, cvars>>

MappingNext ==
    ApplyMapping \/ ApplyMappingSelected \/ RepeatMapping \/ RemapReordered \/ Tick

SpecMapping == MappingInit /\ [][MappingNext]_vars

-----------------------------------------------------------------------------
(* Properties of apply_mapping, on the calls recorded in res and prev *)

Called(call) == call.op = "apply"

Returned(call) == call.op = "apply" /\ call.out.raised = ""

\* The elements of a list
Elems(seq) == { seq[i] : i \in 1..Len(seq) }

\* No other rule of the list writes the target of rule i.
UniqueTarget(rules, i) ==
    \A j \in 1..Len(rules) : j # i => rules[j].target_field # rules[i].target_field

UniqueTargets(rules) == \A i \in 1..Len(rules) : UniqueTarget(rules, i)

\* The value found under the primary source, None without one
PrimaryValue(rule, raw_fields) ==
    IF rule.source_field # NoneS THEN Get(raw_fields, rule.source_field) ELSE None

\* The value found under the fallback source, None without one
FallbackValue(rule, raw_fields) ==
    IF rule.fallback_source # NoneS THEN Get(raw_fields, rule.fallback_source) ELSE None

\* C4 for one rule whose mapped value is v: v is the primary value when there
\* is one, else the fallback value; a configured transform replaces it by the
\* transformed date; the default is v only when all of that left None.
ResolvedInOrder(rule, raw_fields, now, v) ==
    LET p == PrimaryValue(rule, raw_fields)
        f == FallbackValue(rule, raw_fields)
        looked == IF ~IsNone(p) THEN p ELSE f
        t == ApplyDateTransform(looked, rule.date_transform, rule.date_transform_source,
                                raw_fields, now)
    IN  /\ ~HasTransform(rule) /\ ~IsNone(p) => v = p
        /\ ~HasTransform(rule) /\ IsNone(p) /\ ~IsNone(f) => v = f
        /\ HasTransform(rule) /\ ~IsNone(t) => v = t
        /\ v = rule.default_value /\ ~IsNone(v) =>
              \/ ~HasTransform(rule) /\ (looked = v \/ IsNone(looked))
              \/ HasTransform(rule) /\ (t = v \/ IsNone(t))
        /\ IsNone(v) =>
              /\ IsNone(rule.default_value)
              /\ IF HasTransform(rule) THEN IsNone(t) ELSE IsNone(looked)

RequiredUnresolved(rules, raw_fields, now) ==
    { rules[i].target_field :
        i \in { j \in 1..Len(rules) :
                  /\ rules[j].is_required
                  /\ IsNone(ResolveValueTraced(rules[j], raw_fields, now).value) } }

\* C6: whenever a required rule resolves to null, apply_mapping still returns
\* a result, and the unmapped_required of a result holds exactly the targets
\* of the required rules that resolved to null.
C6_UnmappedRequiredExact ==
    Called(res) =>
        /\ RequiredUnresolved(res.rules, res.raw_fields, res.now) # {} => Returned(res)
        /\ Returned(res) =>
              Elems(res.out.ret.unmapped_required)
                  = RequiredUnresolved(res.rules, res.raw_fields, res.now)

AmountTargets == {"total_amount", "subtotal", "tax_amount"}

DateTargets == {"invoice_date", "due_date"}

\* A mapped value that cannot be parsed into the type of its target field
Unusable(target, v) ==
    /\ v.t = "str"
    /\ \/ target \in AmountTargets /\ ~ParseDecimal(v.s)[1]
       \/ target \in DateTargets /\ ~ParseDate(v.s)[1]

\* C7: apply_mapping never raises a conversion error for a rule, and when the
\* value a rule resolved cannot be parsed into its target's amount or date type
\* the document's field is null and, if the rule is required, its target is in
\* unmapped_required.
C7_MalformedFailsSoft ==
    Called(res) =>
        /\ res.out.raised \notin {"InvalidOperation", "ValueError"}
        /\ Returned(res) =>
              \A i \in 1..Len(res.rules) :
                  LET rule == res.rules[i]
                      v == Get(res.out.ret.mapped_fields, rule.target_field)
                  IN  UniqueTarget(res.rules, i) /\ Unusable(rule.target_field, v) =>
                          /\ IsNone(res.out.ret.invoice_data[rule.target_field])
                          /\ rule.is_required =>
                                rule.target_field \in Elems(res.out.ret.unmapped_required)

\* The multiset of rules is the same in both lists.
SameRuleSet(a, b) ==
    /\ Len(a) = Len(b)
    /\ \A r \in Elems(a) \cup Elems(b) :
          Cardinality({ i \in 1..Len(a) : a[i] = r }) = Cardinality({ i \in 1..Len(b) : b[i] = r })

\* prev and res are two calls with the same raw fields and line items, made the
\* same day, whose rule lists are permutations of each other.
ReorderedPair ==
    /\ Called(prev) /\ Called(res)
    /\ SameRuleSet(prev.rules, res.rules)
    /\ res.raw_fields = prev.raw_fields
    /\ res.line_items = prev.out.line_items
    /\ res.now = prev.now

\* Both calls end the same way, with the same resolved-value map and the same
\* set of unmapped required targets.
SameMapping ==
    /\ res.out.raised = prev.out.raised
    /\ res.out.ret.mapped_fields = prev.out.ret.mapped_fields
    /\ Elems(res.out.ret.unmapped_required) = Elems(prev.out.ret.unmapped_required)

\* C8 as stated: any permutation of the rule list yields the same mapped_fields
\* and the same set of unmapped required targets.
C8_AnyOrder == ReorderedPair => SameMapping

\* C8 amended: when no two rules of the list write the same target field, any
\* permutation of the rule list yields the same mapped_fields and the same set
\* of unmapped required targets.
C8_AnyOrderUniqueTargets == ReorderedPair /\ UniqueTargets(prev.rules) => SameMapping

\* C8 witness: two returned calls whose rule lists are two different orders of
\* rules with distinct targets, one mapped and one required and unmapped.
C8_Witness ==
    /\ ReorderedPair /\ UniqueTargets(prev.rules)
    /\ res.rules # prev.rules
    /\ Returned(prev) /\ Returned(res)
    /\ res.out.ret.unmapped_required # <<>>
    /\ DOMAIN res.out.ret.mapped_fields # {}

\* prev and res are two calls with the same profile, the same raw fields and
\* the same list of line items.
RepeatedPair ==
    /\ Called(prev) /\ Called(res)
    /\ res.rules = prev.rules
    /\ res.raw_fields = prev.raw_fields
    /\ res.line_items = prev.out.line_items

ResolvedGL(call) ==
    Dimension(RuleLoop(call.rules, call.raw_fields, call.now).mapped, "gl_account")

\* C10: after apply_mapping the line items are the same items in the same
\* order with every field but the GL code unchanged; if a gl_account was
\* resolved each item that had no GL code carries it and each item that had
\* one keeps it; if none was resolved the items are unchanged.
C10_BackfillFrame ==
    Called(res) =>
        LET before == res.line_items
            after == res.out.line_items
        IN  /\ Len(after) = Len(before)
            /\ \A i \in 1..Len(before) :
                  \A f \in DOMAIN before[i] \ {"gl_account_code"} :
                      f \in DOMAIN after[i] /\ after[i][f] = before[i][f]
            /\ IF Truthy(ResolvedGL(res))
               THEN \A i \in 1..Len(before) :
                        Get(after[i], "gl_account_code")
                            = IF Truthy(Get(before[i], "gl_account_code"))
                              THEN Get(before[i], "gl_account_code")
                              ELSE ResolvedGL(res)
               ELSE after = before

-----------------------------------------------------------------------------
(* The profile registry as a state machine *)

\* most profiles the registry holds
MaxProfiles == 3

\* Profiles a client registers: global or scoped to organization 0 or 1, with
\* or without a vendor pattern (one that matches the MGD vendor, one that
\* does not compile), default or not.
CustomProfiles ==
    { InvoiceMappingProfile(id, pattern, is_default, org, <<>>) :
        id \in {"custom-a", "custom-b"},
        pattern \in {None, Str("(?i)MGD|Master Gutters"), Str("(")},
        is_default \in BOOLEAN,
        org \in {NoOrg, 0, 1} }

\* No apply_mapping caller
NoArgs == [via |-> "none"]

RegistryInit ==
    /\ profiles = BuiltinProfiles
    /\ today = StartDay
    /\ sel = NoSelect
    /\ args = NoArgs
    /\ res = NoCall
    /\ prev = NoCall
    /\ CascadeIdle

\* register_profile(profile)
RegisterProfile ==
    /\ \E profile \in CustomProfiles :
          /\ Registered(profiles, profile.id) \/ Len(profiles) < MaxProfiles
          /\ profiles' = RegisterInto(profiles, profile)
    /\ sel' = NoSelect
    /\ UNCHANGED <<today, args, res, prev, cvars>>

\* remove_profile(profile_id)
RemoveProfile ==
    /\ \E id \in {"default-subcontractor", "standard-invoice", "custom-a", "custom-b"} :
          profiles' = RemoveFrom(profiles, id)
    /\ sel' = NoSelect
    /\ UNCHANGED <<today, args, res, prev, cvars>>

\* select_profile(vendor_name, profile_id, organization_id)
SelectProfileCall ==
    /\ \E vendor_name \in {None, Str("MGD Construction Services")},
          profile_id \in {NoneS, "custom-a"},
          organization_id \in {NoOrg, 0, 1} :
          sel' = [op |-> "select", vendor_name |-> vendor_name,
                  profile_id |-> profile_id, organization_id |-> organization_id,
                  out |-> SelectProfile(profiles, vendor_name, profile_id, organization_id)]
    /\ UNCHANGED <<profiles, today, args, res, prev, cvars>>

RegistryNext == RegisterProfile \/ RemoveProfile \/ SelectProfileCall

SpecRegistry == RegistryInit /\ [][RegistryNext]_vars

-----------------------------------------------------------------------------
(* Properties of select_profile, on the call recorded in sel *)

\* The registered profiles of a priority tier, for the arguments of a call:
\* 1 explicit id, 2 organization-scoped vendor match, 3 global vendor match,
\* 4 organization-scoped default, 5 global default.
TierProfiles(tier, call) ==
    { p \in Elems(profiles) :
        CASE tier = 1 -> call.profile_id # NoneS /\ p.id = call.profile_id
          [] tier = 2 -> /\ call.organization_id # NoOrg
                         /\ p.organization_id = call.organization_id
                         /\ Truthy(call.vendor_name) /\ Truthy(p.vendor_pattern)
                         /\ ReSearch(p.vendor_pattern.s, call.vendor_name.s) = "match"
          [] tier = 3 -> /\ p.organization_id = NoOrg
                         /\ Truthy(call.vendor_name) /\ Truthy(p.vendor_pattern)
                         /\ ReSearch(p.vendor_pattern.s, call.vendor_name.s) = "match"
          [] tier = 4 -> /\ call.organization_id # NoOrg
                         /\ p.organization_id = call.organization_id
                         /\ p.is_default
          [] tier = 5 -> p.organization_id = NoOrg /\ p.is_default
          [] OTHER -> FALSE }

\* The highest priority tier that has a profile, 6 (the built-in fallback) if none
BestTier(call) ==
    IF \E t \in 1..5 : TierProfiles(t, call) # {}
    THEN CHOOSE t \in 1..5 :
            /\ TierProfiles(t, call) # {}
            /\ \A u \in 1..(t - 1) : TierProfiles(u, call) = {}
    ELSE 6

\* C3: the profile select_profile returns belongs to the highest priority tier
\* that has a profile for the arguments: explicit id, organization-scoped
\* vendor match, global vendor match, organization-scoped default, global
\* default, and the built-in fallback when no tier has one.
C3_SelectPriority ==
    sel.op = "select" /\ sel.out.raised = "" =>
        IF BestTier(sel) = 6 THEN sel.out.profile = DefaultSubcontractorProfile
        ELSE sel.out.profile \in TierProfiles(BestTier(sel), sel)

-----------------------------------------------------------------------------
(* services/ai_models.py and CrossValidationService                         *)
(* (services/validation_service.py).  Weights are in hundredths, confidence *)
(* adjustments in two-hundredths, amounts in cents, confidences in          *)
(* thousandths; a quotient is kept as numerator and denominator until the   *)
(* code rounds it.                                                          *)

AIInvoiceExtractionFields ==
    {"invoice_number", "po_number", "vendor_name", "vendor_email", "vendor_phone",
     "vendor_address", "invoice_date", "due_date", "subtotal", "tax_amount",
     "total_amount", "line_items", "ai_confidence"}

\* AIInvoiceExtraction(**data): the vendor's fields are flattened to vendor_*.
AIInvoiceExtraction(data) ==
    [f \in AIInvoiceExtractionFields |->
        IF f \in DOMAIN data THEN data[f]
        ELSE IF f = "line_items" THEN <<>> ELSE None]

\* The viability check as it would be if an invoice identifier were required.
IsValidExtractionWithIdOnly(extraction) ==
    LET has_invoice_id == Truthy(Or(extraction.invoice_number, extraction.po_number))
        has_total == ~IsNone(extraction.total_amount)
        has_vendor == Truthy(extraction.vendor_name)
    IN  has_invoice_id /\ (has_total \/ has_vendor)

\* AIExtractionService._is_valid_extraction(extraction)
IsValidExtraction(extraction) ==
    LET has_invoice_id == Truthy(Or(extraction.invoice_number, extraction.po_number))
        has_total == ~IsNone(extraction.total_amount)
        has_vendor == Truthy(extraction.vendor_name)
    IN  \/ has_invoice_id /\ (has_total \/ has_vendor)
        \/ has_total /\ has_vendor

\* CRITICAL_FIELDS then IMPORTANT_FIELDS, in the order validate() walks them
ComparedFields ==
    <<"invoice_number", "total_amount", "vendor_name", "invoice_date",
      "subtotal", "tax_amount", "due_date", "po_number", "vendor_email",
      "vendor_phone", "vendor_address">>

CRITICAL_FIELDS ==
    [invoice_number |-> 20, total_amount |-> 25, vendor_name |-> 15, invoice_date |-> 10]

IMPORTANT_FIELDS ==
    [subtotal |-> 8, tax_amount |-> 5, due_date |-> 5, po_number |-> 5,
     vendor_email |-> 3, vendor_phone |-> 2, vendor_address |-> 2]

\* CRITICAL_FIELDS.get(f, 0) + IMPORTANT_FIELDS.get(f, 0)
FieldWeight(f) ==
    (IF f \in DOMAIN CRITICAL_FIELDS THEN CRITICAL_FIELDS[f] ELSE 0)
    + (IF f \in DOMAIN IMPORTANT_FIELDS THEN IMPORTANT_FIELDS[f] ELSE 0)

\* AMOUNT_TOLERANCE = 0.02, in cents
AMOUNT_TOLERANCE == 2

\* AMOUNT_TOLERANCE_PCT = 0.005, in thousandths
AMOUNT_TOLERANCE_PCT == 5

\* _ai_to_comparable: the amounts go through str(float)
AiToComparable(ai_result) ==
    [f \in {"invoice_number", "po_number", "vendor_name", "vendor_email", "vendor_phone",
            "vendor_address", "invoice_date", "due_date", "total_amount", "subtotal",
            "tax_amount"} |->
        IF f \in {"total_amount", "subtotal", "tax_amount"}
        THEN (IF IsNone(ai_result[f]) THEN None ELSE StrOf(ai_result[f]))
        ELSE ai_result[f]]

\* to_str of _regex_to_comparable: isoformat of a date, str(float(d)) of a Decimal
ToStr(val) ==
    CASE val.t = "none" -> None
      [] val.t = "dec" -> StrOf(Float(val.n))
      [] OTHER -> StrOf(val)

\* _regex_to_comparable(regex_fields)
RegexToComparable(regex_fields) ==
    [f \in {"invoice_number", "po_number", "vendor_name", "vendor_email", "vendor_phone",
            "vendor_address", "invoice_date", "due_date", "total_amount", "subtotal",
            "tax_amount"} |->
        CASE f = "invoice_date" ->
                ToStr(Or(Get(regex_fields, "invoice_date"), Get(regex_fields, "order_date")))
          [] f = "total_amount" -> ToStr(Get(regex_fields, "total"))
          [] OTHER -> ToStr(Get(regex_fields, f))]

\* float(re.sub(r'[,$]', '', text)) in cents: <<TRUE, cents>>, <<FALSE, 0>> on ValueError
FloatOfText(text) ==
    IF text.s \in {"float", "int", "dec"} THEN <<TRUE, text.n>> ELSE ParseDecimal(text.s)

\* The two floats are within the absolute or the relative tolerance.
WithinTolerance(val_a, val_b) ==
    \/ Abs(val_a - val_b) <= AMOUNT_TOLERANCE
    \/ /\ (IF Abs(val_a) > Abs(val_b) THEN Abs(val_a) ELSE Abs(val_b)) > 0
       /\ 1000 * Abs(val_a - val_b)
            <= AMOUNT_TOLERANCE_PCT * (IF Abs(val_a) > Abs(val_b) THEN Abs(val_a) ELSE Abs(val_b))

\* str(a).lower().strip() with runs of whitespace collapsed
NormalizedText(text) ==
    CASE text.s = "INV1" -> "inv1"
      [] text.s = "INV2" -> "inv2"
      [] text.s = "PO1" -> "po1"
      [] text.s = "PO2" -> "po2"
      [] text.s = "MGD Construction Services" -> "mgd construction services"
      [] text.s = "2024-03-08" -> "2024-03-08"

\* _strings_match(a, b): equal after normalisation; none of the texts of the
\* model longer than three characters contains another, and none has a
\* period or a comma.
StringsMatch(a, b) == NormalizedText(a) = NormalizedText(b)

\* dateutil's parse of a compared date: an isoformat of a date, or a text
DateOfText(text) == IF text.s = "date" THEN <<TRUE, text.n>> ELSE ParseDate(text.s)

\* _dates_match(a, b)
DatesMatch(a, b) ==
    IF DateOfText(a)[1] /\ DateOfText(b)[1]
    THEN DateOfText(a)[2] = DateOfText(b)[2]
    ELSE StringsMatch(a, b)

\* _amounts_match(a, b)
AmountsMatch(a, b) ==
    IF FloatOfText(a)[1] /\ FloatOfText(b)[1]
    THEN WithinTolerance(FloatOfText(a)[2], FloatOfText(b)[2])
    ELSE a = b

\* _values_match(field_name, ai_val, regex_val)
ValuesMatch(field_name, ai_val, regex_val) ==
    CASE field_name \in {"total_amount", "subtotal", "tax_amount", "discount_amount",
                         "shipping_amount"} -> AmountsMatch(ai_val, regex_val)
      [] field_name \in {"invoice_date", "due_date"} -> DatesMatch(ai_val, regex_val)
      [] OTHER -> StringsMatch(ai_val, regex_val)

\* _compare_field(field_name, ai_value, regex_value, weight)
CompareField(field_name, ai_value, regex_value, weight) ==
    CASE IsNone(ai_value) /\ IsNone(regex_value) ->
            [field_name |-> field_name, ai_value |-> None, regex_value |-> None,
             match |-> TRUE, confidence_adjustment |-> 0]
      [] IsNone(ai_value) /\ ~IsNone(regex_value) ->
            [field_name |-> field_name, ai_value |-> None, regex_value |-> regex_value,
             match |-> FALSE, confidence_adjustment |-> 0]
      [] ~IsNone(ai_value) /\ IsNone(regex_value) ->
            [field_name |-> field_name, ai_value |-> ai_value, regex_value |-> None,
             match |-> FALSE, confidence_adjustment |-> weight]
      [] OTHER ->
            [field_name |-> field_name, ai_value |-> ai_value, regex_value |-> regex_value,
             match |-> ValuesMatch(field_name, ai_value, regex_value),
             confidence_adjustment |->
                IF ValuesMatch(field_name, ai_value, regex_value) THEN 2 * weight ELSE -weight]


\* The loops at lines 86-97: one FieldValidation per compared field
FieldValidations(ai_result, regex_fields) ==
    [i \in 1..Len(ComparedFields) |->
        CompareField(ComparedFields[i],
                     AiToComparable(ai_result)[ComparedFields[i]],
                     RegexToComparable(regex_fields)[ComparedFields[i]],
                     FieldWeight(ComparedFields[i]))]

\* len([v for v in validations if Keep(v)]) for the four counts of validate()
CountCompared(validations) ==
    Cardinality({ i \in 1..Len(validations) :
        Truthy(validations[i].ai_value) \/ Truthy(validations[i].regex_value) })

CountMatching(validations) ==
    Cardinality({ i \in 1..Len(validations) : validations[i].match })

CountMismatched(validations) ==
    Cardinality({ i \in 1..Len(validations) :
        /\ ~validations[i].match
        /\ Truthy(validations[i].ai_value) /\ Truthy(validations[i].regex_value) })

CountAiOnly(validations) ==
    Cardinality({ i \in 1..Len(validations) :
        Truthy(validations[i].ai_value) /\ ~Truthy(validations[i].regex_value) })

CountRegexOnly(validations) ==
    Cardinality({ i \in 1..Len(validations) :
        Truthy(validations[i].regex_value) /\ ~Truthy(validations[i].ai_value) })

\* sum(v.confidence_adjustment for v in validations if v.match), in two-hundredths
RECURSIVE TotalWeight(_, _)
TotalWeight(validations, i) ==
    IF i > Len(validations) THEN 0
    ELSE (IF validations[i].match THEN validations[i].confidence_adjustment ELSE 0)
         + TotalWeight(validations, i + 1)

\* sum of the weights of the fields either side has a value for, in two-hundredths
RECURSIVE MaxWeight(_, _)
MaxWeight(validations, i) ==
    IF i > Len(validations) THEN 0
    ELSE (IF Truthy(validations[i].ai_value) \/ Truthy(validations[i].regex_value)
          THEN 2 * FieldWeight(validations[i].field_name) ELSE 0)
         + MaxWeight(validations, i + 1)

\* validation_score = total_weight / max_weight if max_weight > 0 else 0.5
ValidationScore(validations) ==
    IF MaxWeight(validations, 1) > 0
    THEN [num |-> TotalWeight(validations, 1), den |-> MaxWeight(validations, 1)]
    ELSE [num |-> 1, den |-> 2]

\* max(0.0, min(1.0, base)) of a quotient of thousandths
Clamp(q) ==
    IF q.num < 0 THEN [num |-> 0, den |-> 1]
    ELSE IF q.num > 1000 * q.den THEN [num |-> 1000, den |-> 1]
    ELSE q

\* _calculate_final_confidence(...): thousandths, as numerator and denominator
CalculateFinalConfidence(ai_confidence, validation_score, matching, mismatched, ai_only, total_compared) ==
    IF total_compared = 0 THEN [num |-> ai_confidence, den |-> 1]
    ELSE Clamp([num |-> 6 * ai_confidence * validation_score.den
                        + 4000 * validation_score.num
                        + 10 * validation_score.den
                            * ( (IF mismatched = 0 /\ matching > 0 THEN 50 ELSE 0)
                              + (IF ai_only > 0
                                 THEN (IF ai_only * 20 < 60 THEN ai_only * 20 ELSE 60)
                                 ELSE 0) ),
                den |-> 10 * validation_score.den])

\* The test of lines 157-161 as it would be if it took every compared field.
CriticalDisagreementOnAnyField(validations) ==
    \E i \in 1..Len(validations) :
        /\ ~validations[i].match
        /\ Truthy(validations[i].ai_value) /\ Truthy(validations[i].regex_value)

\* any(not v.match and v.field_name in CRITICAL_FIELDS and v.ai_value and v.regex_value)
CriticalDisagreement(validations) ==
    \E i \in 1..Len(validations) :
        /\ ~validations[i].match
        /\ validations[i].field_name \in DOMAIN CRITICAL_FIELDS
        /\ Truthy(validations[i].ai_value) /\ Truthy(validations[i].regex_value)

\* A note of validate(): its wording, and the counts or field names it cites
Note(text, cited) == [text |-> text, cited |-> cited]

\* Lines 99-112: the note on the line-item counts
LineCountNotes(ai_line_count, regex_line_count) ==
    IF ai_line_count > 0 /\ regex_line_count > 0
    THEN IF ai_line_count = regex_line_count
         THEN << Note("Line item count matches: ", <<ai_line_count>>) >>
         ELSE << Note("Line item count mismatch: AI=, Regex=", <<ai_line_count, regex_line_count>>) >>
    ELSE IF ai_line_count > 0
    THEN << Note("AI found line items, regex found none", <<ai_line_count>>) >>
    ELSE IF regex_line_count > 0
    THEN << Note("Regex found line items, AI found none", <<regex_line_count>>) >>
    ELSE << >>

\* sum(item.line_total for item in ai_result.line_items if item.line_total is not None)
RECURSIVE AiLineSum(_, _)
AiLineSum(ai_line_items, i) ==
    IF i > Len(ai_line_items) THEN 0
    ELSE (IF IsNone(ai_line_items[i]["line_total"]) THEN 0 ELSE ai_line_items[i]["line_total"].n)
         + AiLineSum(ai_line_items, i + 1)

\* Lines 114-130: the note on the sum of the oracle's line items
LineSumNotes(ai_result) ==
    IF ai_result.line_items # <<>> /\ Truthy(ai_result.total_amount)
          /\ AiLineSum(ai_result.line_items, 1) > 0
    THEN IF \/ Abs(AiLineSum(ai_result.line_items, 1) - ai_result.total_amount.n) < AMOUNT_TOLERANCE
            \/ /\ Truthy(ai_result.tax_amount)
               /\ Abs(AiLineSum(ai_result.line_items, 1)
                        - Or(ai_result.subtotal, ai_result.total_amount).n) < AMOUNT_TOLERANCE
         THEN << Note("AI line items sum matches total/subtotal", <<>>) >>
         ELSE << Note("AI line items sum differs from total",
                      <<AiLineSum(ai_result.line_items, 1), ai_result.total_amount.n>>) >>
    ELSE << >>

\* The critical fields with a value on both sides and no match, in the order
\* of the validations
Disagreeing(validations) ==
    SelectSeq([i \in 1..Len(validations) |-> validations[i].field_name],
              LAMBDA f : \E i \in 1..Len(validations) :
                            /\ validations[i].field_name = f
                            /\ ~validations[i].match
                            /\ f \in DOMAIN CRITICAL_FIELDS
                            /\ Truthy(validations[i].ai_value)
                            /\ Truthy(validations[i].regex_value))

\* Lines 164-172: the note on the critical fields that disagree
ReviewNotes(validations, recommended_review) ==
    IF recommended_review /\ Disagreeing(validations) # <<>>
    THEN << Note("Manual review recommended: critical field disagreements on ",
                 Disagreeing(validations)) >>
    ELSE << >>

\* Lines 133-185 of validate(): the result from the validations, the
\* unrounded final confidence and the notes on the line items.
CrossValidationResult(validations, final, notes) ==
    [total_fields_compared |-> CountCompared(validations),
     matching_fields |-> CountMatching(validations),
     mismatched_fields |-> CountMismatched(validations),
     ai_only_fields |-> CountAiOnly(validations),
     regex_only_fields |-> CountRegexOnly(validations),
     validation_score |-> RoundDiv(1000 * ValidationScore(validations).num,
                                   ValidationScore(validations).den),
     field_validations |-> validations,
     final_confidence |-> Float(RoundDiv(final.num, final.den)),
     recommended_review |-> final.num < 700 * final.den \/ CriticalDisagreement(validations),
     notes |-> notes \o ReviewNotes(validations,
                            final.num < 700 * final.den \/ CriticalDisagreement(validations))]

\* Lines 149-152 of validate(): the final confidence of the validations
FinalOf(ai_result, validations) ==
    CalculateFinalConfidence(
        IF Truthy(ai_result.ai_confidence) THEN ai_result.ai_confidence.n ELSE 700,
        ValidationScore(validations),
        CountMatching(validations), CountMismatched(validations),
        CountAiOnly(validations), CountCompared(validations))

\* The result of the validations
ValidationsResult(ai_result, validations, regex_line_items) ==
    CrossValidationResult(validations, FinalOf(ai_result, validations),
                          LineCountNotes(Len(ai_result.line_items), Len(regex_line_items))
                          \o LineSumNotes(ai_result))

\* validate(ai_result, regex_fields, regex_line_items)
Validate(ai_result, regex_fields, regex_line_items) ==
    ValidationsResult(ai_result, FieldValidations(ai_result, regex_fields), regex_line_items)

-----------------------------------------------------------------------------
(* AIExtractionService (services/ai_extraction_service.py)                  *)
(*                                                                          *)
(* An oracle tier answers with the pair (extraction, metadata) its service  *)
(* returns: an AIInvoiceExtraction, None after a JSON or schema failure, or *)
(* None with metadata["error"] after an exception or a time-out inside the  *)
(* service.  Costs are counted in units of one oracle response.  A message  *)
(* that extract() concatenates is the sequence of its fragments.            *)

\* A str built by concatenation: the fragments in order.
Text(parts) == [t |-> "text", s |-> parts, n |-> 0]

\* result.fallback_reason or ""
ReasonOrEmpty(reason) == IF IsNone(reason) THEN <<>> ELSE reason.s

\* ExtractionTier
ExtractionTier ==
    [VISION |-> "gpt4o_vision", TEXT_LLM |-> "gpt4o_text", REGEX |-> "regex_parser",
     VISION_WITH_VALIDATION |-> "gpt4o_vision_validated",
     TEXT_LLM_WITH_VALIDATION |-> "gpt4o_text_validated"]

\* AIExtractionResult(): the defaults of the class
AIExtractionResult ==
    [success |-> TRUE, tier_used |-> ExtractionTier.REGEX, ai_extraction |-> None,
     regex_extraction |-> None, cross_validation |-> None, final_confidence |-> Float(0),
     token_usage |-> None, error |-> None, fallback_reason |-> None,
     estimated_cost_usd |-> 0]

\* AIExtractionService(): the flags read from the environment, nothing else set
NewService(vision, text_llm, cross_validation) ==
    [initialized |-> FALSE, client |-> NoneS, enable_vision |-> vision,
     enable_text_llm |-> text_llm, enable_cross_validation |-> cross_validation,
     total_cost |-> 0, total_extractions |-> 0]

\* initialize() as it would be if it left the tier switches as constructed.
InitializedKeepingTiers(service, environ) ==
    IF service.initialized THEN service
    ELSE IF environ.OPENAI_API_KEY \in {NoneS, ""} \/ environ.openai # "ok"
    THEN [service EXCEPT !.initialized = TRUE]
    ELSE [service EXCEPT !.client = "AsyncOpenAI", !.initialized = TRUE]

\* initialize(): without a key, or when the client cannot be created, both
\* oracle tiers are switched off.
Initialized(service, environ) ==
    IF service.initialized THEN service
    ELSE IF environ.OPENAI_API_KEY \in {NoneS, ""} \/ environ.openai # "ok"
    THEN [service EXCEPT !.enable_vision = FALSE, !.enable_text_llm = FALSE,
                         !.initialized = TRUE]
    ELSE [service EXCEPT !.client = "AsyncOpenAI", !.initialized = TRUE]

\* The dict comprehension of lines 164-168: str(v) of every regex field but raw_text
RegexExtraction(regex_fields) ==
    [k \in DOMAIN regex_fields \ {"raw_text"} |->
        IF IsNone(regex_fields[k]) THEN None ELSE StrOf(regex_fields[k])]

\* raw_text.strip()
Strip(raw_text) == IF raw_text.s = "   " THEN Str("") ELSE raw_text

\* The tier won: lines 177-193 for Tier 2, 215-231 for Tier 1.
TierWon(result0, service, plain, validated, ai_extraction, meta, regex_fields, regex_line_items, assumed) ==
    IF service.enable_cross_validation
    THEN [result0 EXCEPT
            !.ai_extraction = ai_extraction,
            !.tier_used = validated,
            !.token_usage = Str("tokens"),
            !.estimated_cost_usd = meta.estimated_cost,
            !.cross_validation = Validate(ai_extraction, regex_fields, regex_line_items),
            !.final_confidence =
                Validate(ai_extraction, regex_fields, regex_line_items).final_confidence]
    ELSE [result0 EXCEPT
            !.ai_extraction = ai_extraction,
            !.tier_used = plain,
            !.token_usage = Str("tokens"),
            !.estimated_cost_usd = meta.estimated_cost,
            !.final_confidence = Or(ai_extraction.ai_confidence, Float(assumed))]

\* The else branch of a tier (lines 200-202, 238-241) and its except branch
\* (lines 204-206, 243-245): the reason is recorded, nothing is raised.
TierFailed(result0, reason) == [result0 EXCEPT !.fallback_reason = Text(reason)]

\* VisionExtractionService.extract / TextLLMExtractionService.extract as
\* extract() sees it: the service raises without a client, else it returns
\* what the oracle call came to.
ServiceExtract(service, outcome) ==
    IF service.client = NoneS
    THEN [raised |-> "OpenAI client not initialized", extraction |-> None,
          meta |-> [error |-> NoneS, estimated_cost |-> 0]]
    ELSE [raised |-> "", extraction |-> outcome.extraction, meta |-> outcome.meta]

\* if ai_extraction and self._is_valid_extraction(ai_extraction)
Viable(answer) ==
    answer.raised = "" /\ answer.extraction # None /\ IsValidExtraction(answer.extraction)

\* Tier 2, lines 174-206, once the vision service has answered
Tier2Result(result0, service, answer, regex_fields, regex_line_items) ==
    IF answer.raised # ""
    THEN TierFailed(result0, <<"Vision error: ", answer.raised>>)
    ELSE IF Viable(answer)
    THEN TierWon(result0, service, ExtractionTier.VISION,
                 ExtractionTier.VISION_WITH_VALIDATION, answer.extraction, answer.meta,
                 regex_fields, regex_line_items, 800)
    ELSE TierFailed(result0,
            IF answer.meta.error # NoneS THEN <<answer.meta.error>>
            ELSE <<"Vision returned invalid/empty extraction">>)

\* Tier 1, lines 212-245, once the text service has answered
Tier1Result(result0, service, answer, regex_fields, regex_line_items) ==
    IF answer.raised # ""
    THEN TierFailed(result0, ReasonOrEmpty(result0.fallback_reason)
                             \o <<" | Text LLM error: ", answer.raised>>)
    ELSE IF Viable(answer)
    THEN TierWon(result0, service, ExtractionTier.TEXT_LLM,
                 ExtractionTier.TEXT_LLM_WITH_VALIDATION, answer.extraction, answer.meta,
                 regex_fields, regex_line_items, 700)
    ELSE TierFailed(result0, ReasonOrEmpty(result0.fallback_reason)
            \o <<" | Text LLM: ",
                 IF answer.meta.error # NoneS THEN answer.meta.error
                 ELSE "Text LLM returned invalid/empty extraction">>)

\* Line 209 as it would be if Tier 1 did not look at what Tier 2 left.
Tier1AttemptedRegardless(result0, service, raw_text) ==
    /\ service.enable_text_llm
    /\ Truthy(Strip(raw_text))

\* Line 209: Tier 1 is attempted
Tier1Attempted(result0, service, raw_text) ==
    /\ result0.ai_extraction = None
    /\ service.enable_text_llm
    /\ Truthy(Strip(raw_text))

\* Tier 0 as it would be if it took the default 0.5 and not the computed score.
Tier0WithDefaultConfidence(result0, regex_fields) ==
    IF result0.ai_extraction = None
    THEN [result0 EXCEPT !.tier_used = ExtractionTier.REGEX,
                         !.final_confidence = Float(500)]
    ELSE result0

\* Tier 0, lines 248-251: no tier left an extraction
Tier0(result0, regex_fields) ==
    IF result0.ai_extraction = None
    THEN [result0 EXCEPT !.tier_used = ExtractionTier.REGEX,
                         !.final_confidence = GetOr(regex_fields, "confidence_score", Float(500))]
    ELSE result0

\* The finalisation as it would be if a failed tier made the result a failure.
FinalizeUnlessFailed(result0) ==
    [result0 EXCEPT !.success = IsNone(result0.fallback_reason)]

\* Lines 256-257: finalisation
Finalize(result0) == [result0 EXCEPT !.success = TRUE]

\* Lines 260-261: cost tracking
TrackCost(service, result0) ==
    [service EXCEPT !.total_cost = @ + result0.estimated_cost_usd,
                    !.total_extractions = @ + 1]

\* _to_decimal(value)
ToDecimal(value) == IF IsNone(value) THEN None ELSE Dec(value.n)

\* _parse_date(value)
ParseDateOrNone(value) ==
    IF ~Truthy(value) THEN None
    ELSE IF ParseDate(value.s)[1] THEN Date(ParseDate(value.s)[2]) ELSE None

\* final_confidence < 0.7 or (cross_validation and cross_validation.recommended_review):
\* False or None is None
ReviewOf(ai_result) ==
    IF ai_result.final_confidence.n < 700 THEN Bool(TRUE)
    ELSE IF ai_result.cross_validation = None THEN None
    ELSE Bool(ai_result.cross_validation.recommended_review)

\* The LineItem list of lines 300-315: line_number or (i + 1), amounts through
\* _to_decimal; gl_account_code and cost_center are not fields of LineItem.
ConvertedItems(ai_line_items) ==
    [i \in 1..Len(ai_line_items) |->
        LineItem([line_number |-> Or(ai_line_items[i]["line_number"], IntV(i)),
                  description |-> ai_line_items[i]["description"],
                  quantity |-> ToDecimal(ai_line_items[i]["quantity"]),
                  unit_price |-> ToDecimal(ai_line_items[i]["unit_price"]),
                  line_total |-> ToDecimal(ai_line_items[i]["line_total"])])]

\* ai_to_invoice_data(ai_result, raw_text): what it raises ("" when it
\* returns) and the InvoiceData it returns.
AiToInvoiceData(ai_result, raw_text) ==
    IF ai_result.ai_extraction = None
    THEN [raised |-> "ValueError", invoice_data |-> InvoiceData(EmptyDict)]
    ELSE IF IsNone(ReviewOf(ai_result))
    THEN [raised |-> "ValidationError", invoice_data |-> InvoiceData(EmptyDict)]
    ELSE [raised |-> "",
          invoice_data |-> InvoiceData(
            [invoice_number |-> ai_result.ai_extraction.invoice_number,
             po_number |-> ai_result.ai_extraction.po_number,
             vendor |-> VendorInfo([name |-> ai_result.ai_extraction.vendor_name,
                                    address |-> ai_result.ai_extraction.vendor_address,
                                    email |-> ai_result.ai_extraction.vendor_email,
                                    phone |-> ai_result.ai_extraction.vendor_phone]),
             invoice_date |-> ParseDateOrNone(ai_result.ai_extraction.invoice_date),
             due_date |-> ParseDateOrNone(ai_result.ai_extraction.due_date),
             subtotal |-> ToDecimal(ai_result.ai_extraction.subtotal),
             tax_amount |-> ToDecimal(ai_result.ai_extraction.tax_amount),
             total_amount |-> ToDecimal(ai_result.ai_extraction.total_amount),
             currency |-> Str("USD"),
             line_items |-> ConvertedItems(ai_result.ai_extraction.line_items),
             location |-> ai_result.ai_extraction.vendor_address,
             confidence_score |-> ai_result.final_confidence,
             requires_manual_review |-> ReviewOf(ai_result),
             raw_text |-> raw_text])]


-----------------------------------------------------------------------------
(* The extraction cascade as a state machine.  extract() is a coroutine: it *)
(* is suspended while an oracle call is in flight, and each action below is *)
(* the code between two suspension points.                                  *)

\* extract() calls completed by one service
MaxExtractions == 2

\* Nothing matched by any pattern: the fields of a blank text.
NothingFound == [k \in ParsedKeys |-> None]

\* Texts that differ in the PO number and the total the patterns found.
CascadeFound ==
    { Found(po, None, None, None, None, tot, Str("MGD Construction Services")) :
        po \in {None, Str("PO1")}, tot \in {None, Dec(15000)} }

\* The documents handed to extract(): a blank text, or a text with what the
\* patterns and the line-item parser find in it.
Documents ==
    { [raw_text |-> Str("   "), found |-> NothingFound, line_items |-> <<>>] }
    \cup { [raw_text |-> Str("<text>"), found |-> f, line_items |-> items] :
                f \in CascadeFound, items \in ItemLists }

\* The JSON objects an oracle may answer with, as AIInvoiceExtraction parses
\* them; none has line items or dates.
OracleExtractions ==
    { AIInvoiceExtraction([invoice_number |-> inv, po_number |-> po, vendor_name |-> ven,
                           total_amount |-> tot, ai_confidence |-> c]) :
        inv \in {None, Str("INV1")}, po \in {None, Str("PO1")},
        ven \in {None, Str("MGD Construction Services")},
        tot \in {None, Float(15000), Float(20000)},
        c \in {None, Float(900)} }

\* What a service's extract() returns: an extraction, None after a JSON
\* failure, or None with the error of a failed or timed-out oracle call.
OracleOutcomes ==
    { [kind |-> "extraction", extraction |-> e,
       meta |-> [error |-> NoneS, estimated_cost |-> 1]] : e \in OracleExtractions }
    \cup { [kind |-> "null", extraction |-> None,
            meta |-> [error |-> NoneS, estimated_cost |-> 1]],
           [kind |-> "error", extraction |-> None,
            meta |-> [error |-> "Request timed out.", estimated_cost |-> 0]] }

\* Oracle call events
CallStarted(tier) == [tier |-> tier, ev |-> "start", won |-> FALSE]
CallEnded(tier, won) == [tier |-> tier, ev |-> "end", won |-> won]
RegexUsed == [tier |-> "regex", ev |-> "use", won |-> TRUE]

\* The fields of an oracle output that the viability check reads; all None
\* when the service returned no extraction
ReadFields(extraction) ==
    IF extraction = None
    THEN [invoice_number |-> None, po_number |-> None, vendor_name |-> None,
          total_amount |-> None]
    ELSE [invoice_number |-> extraction.invoice_number, po_number |-> extraction.po_number,
          vendor_name |-> extraction.vendor_name, total_amount |-> extraction.total_amount]

\* What the last oracle answer was, for the tier that asked: its kind, the
\* fields the viability check reads, and the extraction when it is viable
Answered(tier, outcome, answer) ==
    [tier |-> tier,
     kind |-> IF outcome.kind # "extraction" THEN outcome.kind
              ELSE IF Viable(answer) THEN "viable" ELSE "not_viable",
     fields |-> ReadFields(answer.extraction),
     extraction |-> IF Viable(answer) THEN answer.extraction ELSE None]

\* No oracle has answered.
NoAnswer ==
    [tier |-> "none", kind |-> "none", fields |-> ReadFields(None), extraction |-> None]

CascadeInit ==
    /\ profiles = BuiltinProfiles
    /\ today = StartDay
    /\ sel = NoSelect
    /\ args = NoArgs
    /\ res = NoCall
    /\ prev = NoCall
    /\ svc \in { NewService(v, t, c) : v \in BOOLEAN, t \in BOOLEAN, c \in BOOLEAN }
    /\ env \in { [OPENAI_API_KEY |-> k, openai |-> o] :
                    k \in {NoneS, "sk-key"}, o \in {"ok", "ImportError", "Exception"} }
    /\ pc = "idle"
    /\ inp = [raw_text |-> Str(""), regex_fields |-> EmptyDict, line_items |-> <<>>]
    /\ result = [op |-> "none"]
    /\ oracle = NoAnswer
    /\ log = <<>>
    /\ doc = [path |-> "none", raised |-> "", invoice_data |-> InvoiceData(EmptyDict)]

\* await ai_service.initialize() at start-up
Initialize ==
    /\ pc = "idle" /\ ~svc.initialized
    /\ svc' = Initialized(svc, env)
    /\ UNCHANGED <<mvars, env, pc, inp, result, oracle, log, doc>>

\* Lines 247-273: Tier 0 if no tier won, finalisation, cost tracking, return
Return(service, result0, regex_fields, events) ==
    /\ result' = Finalize(Tier0(result0, regex_fields))
    /\ svc' = TrackCost(service, result0)
    /\ log' = IF result0.ai_extraction = None THEN Append(events, RegexUsed) ELSE events
    /\ pc' = "done"

\* Lines 209-212: the Tier 1 call is started, or the cascade goes on to Tier 0
AfterTier2(service, result0, raw_text, regex_fields, events) ==
    IF Tier1Attempted(result0, service, raw_text)
    THEN /\ result' = result0
         /\ svc' = service
         /\ log' = Append(events, CallStarted("text"))
         /\ pc' = "tier1"
    ELSE Return(service, result0, regex_fields, events)

\* Lines 171-174: the Tier 2 call is started, or Tier 2 is skipped
AfterRegex(service, result0, raw_text, regex_fields) ==
    IF service.enable_vision
    THEN /\ result' = result0
         /\ svc' = service
         /\ log' = <<CallStarted("vision")>>
         /\ pc' = "tier2"
    ELSE AfterTier2(service, result0, raw_text, regex_fields, <<>>)

\* extract(pdf_path, raw_text, field_parser) up to its first suspension point
\* (lines 156-174), or to its return when no oracle tier is attempted
ExtractStart ==
    /\ pc = "idle" /\ svc.total_extractions < MaxExtractions
    /\ \E d \in Documents :
        /\ inp' = [raw_text |-> d.raw_text,
                   regex_fields |-> ParseWithLineItems(d.found, d.line_items),
                   line_items |-> d.line_items]
        /\ AfterRegex(Initialized(svc, env),
                      [AIExtractionResult EXCEPT !.regex_extraction =
                            RegexExtraction(ParseWithLineItems(d.found, d.line_items))],
                      d.raw_text, ParseWithLineItems(d.found, d.line_items))
    /\ oracle' = NoAnswer
    /\ doc' = [path |-> "none", raised |-> "", invoice_data |-> InvoiceData(EmptyDict)]
    /\ UNCHANGED <<mvars, env>>

\* The vision oracle call ends (lines 174-212): Tier 2 wins or fails, then
\* the Tier 1 call is started or extract() returns.
VisionReturns ==
    /\ pc = "tier2"
    /\ \E outcome \in OracleOutcomes :
        /\ oracle' = Answered("vision", outcome, ServiceExtract(svc, outcome))
        /\ AfterTier2(svc,
                      Tier2Result(result, svc, ServiceExtract(svc, outcome),
                                  inp.regex_fields, inp.line_items),
                      inp.raw_text, inp.regex_fields,
                      Append(log, CallEnded("vision", Viable(ServiceExtract(svc, outcome)))))
    /\ UNCHANGED <<mvars, env, inp, doc>>

\* The text oracle call ends (lines 212-273): Tier 1 wins or fails, and
\* extract() returns.
TextReturns ==
    /\ pc = "tier1"
    /\ \E outcome \in OracleOutcomes :
        /\ oracle' = Answered("text", outcome, ServiceExtract(svc, outcome))
        /\ Return(svc,
                  Tier1Result(result, svc, ServiceExtract(svc, outcome),
                              inp.regex_fields, inp.line_items),
                  inp.regex_fields,
                  Append(log, CallEnded("text", Viable(ServiceExtract(svc, outcome)))))
    /\ UNCHANGED <<mvars, env, inp, doc>>

\* The caller's variables once it holds the document
Handed(path, built) ==
    /\ doc' = [path |-> path, raised |-> built.raised, invoice_data |-> built.invoice_data]
    /\ pc' = "idle"
    /\ inp' = [raw_text |-> Str(""), regex_fields |-> EmptyDict, line_items |-> <<>>]
    /\ result' = [op |-> "none"]
    /\ oracle' = NoAnswer
    /\ log' = <<>>

\* main.py lines 210-212: an oracle tier won and the caller converts its
\* extraction with ai_to_invoice_data(ai_result, raw_text).
ConvertOracle ==
    /\ pc = "done"
    /\ result.ai_extraction # None /\ result.tier_used # ExtractionTier.REGEX
    /\ Handed("oracle", AiToInvoiceData(result, inp.raw_text))
    /\ UNCHANGED <<mvars, svc, env>>

\* apply_mapping(raw_fields, line_items) with the profile select_profile picks
\* for the vendor name, as the document it hands back
MappedDocument(raw_fields, line_items, picked, now) ==
    IF picked.raised # ""
    THEN [raised |-> picked.raised, invoice_data |-> InvoiceData(EmptyDict)]
    ELSE [raised |-> ApplyMappingWith(picked.profile.rules, raw_fields, line_items, now).raised,
          invoice_data |->
            ApplyMappingWith(picked.profile.rules, raw_fields, line_items, now).ret.invoice_data]

\* main.py lines 250-260: no oracle tier won and the caller builds the
\* document with the mapping engine from the regex fields.
RegexFallback ==
    /\ pc = "done"
    /\ ~(result.ai_extraction # None /\ result.tier_used # ExtractionTier.REGEX)
    /\ Handed("mapping",
              MappedDocument(inp.regex_fields, inp.line_items,
                             SelectProfile(profiles, Get(inp.regex_fields, "vendor_name"),
                                           NoneS, NoOrg),
                             today))
    /\ UNCHANGED <<mvars, svc, env>>

\* FieldParser.parse(text): the direct-parse path
ParseDirect ==
    /\ pc = "idle"
    /\ \E d \in Documents :
        Handed("parse", [raised |-> "", invoice_data |-> Parse(d.found, d.line_items)])
    /\ UNCHANGED <<mvars, svc, env>>

CascadeNext ==
    \/ Initialize
    \/ ExtractStart
    \/ VisionReturns
    \/ TextReturns
    \/ ConvertOracle
    \/ RegexFallback
    \/ ParseDirect

\* An oracle call in flight ends: the client is created with a time-out of
\* 120 s and two retries, and the services catch what the call raises.
CascadeFairness == WF_vars(VisionReturns) /\ WF_vars(TextReturns)

SpecCascade == CascadeInit /\ [][CascadeNext]_vars /\ CascadeFairness


-----------------------------------------------------------------------------
(* Properties of the extraction cascade *)

\* The oracle calls of the running extract() that were started and not ended
InFlight(tier) ==
    Cardinality({ i \in 1..Len(log) : log[i] = CallStarted(tier) })
        > Cardinality({ i \in 1..Len(log) : log[i].tier = tier /\ log[i].ev = "end" })

\* A tier failed in the running extract(): its call ended without winning.
TierLost(tier) == \E i \in 1..Len(log) : log[i] = CallEnded(tier, FALSE)

\* C1: whatever tiers are enabled and whatever each attempted oracle tier
\* answers (a viable extraction, one failing the viability check, null after
\* a JSON failure, an error or a time-out), extract() comes to its return,
\* and the result it returns has success = true; the cascade is never left
\* in any position but idle, waiting for an oracle, or returned.
C1_ExtractAlwaysReturnsSuccess ==
    /\ [](pc \in {"idle", "tier2", "tier1", "done"})
    /\ [](pc = "done" => result.success = TRUE /\ ~InFlight("vision") /\ ~InFlight("text"))
    /\ (pc \in {"tier2", "tier1"} ~> pc = "done")

\* C1 witness: extract() has returned after both oracle tiers failed, the
\* last one with an error.
C1_Witness ==
    /\ pc = "done" /\ result.success = TRUE
    /\ TierLost("vision") /\ TierLost("text")
    /\ oracle.tier = "text" /\ oracle.kind = "error"

\* C2: in one extract() call every vision event precedes every text event
\* and both precede the use of the local extractor; the text call is started
\* only if the vision call, when there was one, has ended without winning;
\* the local extractor is used only after every started call has ended
\* without winning; and the two calls are never in flight together.
C2_TiersInOrder ==
    /\ \A i \in 1..Len(log) : \A j \in 1..Len(log) :
          /\ (log[i].tier = "vision" /\ log[j].tier \in {"text", "regex"}) => i < j
          /\ (log[i].tier = "text" /\ log[j].tier = "regex") => i < j
    /\ \A j \in 1..Len(log) :
          log[j] = CallStarted("text") =>
             /\ svc.enable_vision =>
                   \E i \in 1..(j - 1) : log[i] = CallEnded("vision", FALSE)
             /\ \A i \in 1..Len(log) : log[i] # CallEnded("vision", TRUE)
    /\ \A j \in 1..Len(log) :
          log[j] = RegexUsed =>
             \A i \in 1..Len(log) : log[i].tier # "regex" => ~log[i].won
    /\ ~(InFlight("vision") /\ InFlight("text"))
    /\ (pc = "tier2" <=> InFlight("vision"))
    /\ (pc = "tier1" <=> InFlight("text"))

\* C2 witness: the text call is in flight after the vision call ended
\* without winning.
C2_Witness ==
    /\ pc = "tier1"
    /\ log = <<CallStarted("vision"), CallEnded("vision", FALSE), CallStarted("text")>>

\* C5: a document handed to a caller has requires_manual_review = true
\* whenever its confidence score is below 0.7, or it has no invoice number,
\* or it has no total amount.
C5_ReviewWhenIncomplete ==
    (doc.path # "none" /\ doc.raised = "") =>
        ( ( \/ doc.invoice_data["confidence_score"].n < 700
            \/ IsNone(doc.invoice_data["invoice_number"])
            \/ IsNone(doc.invoice_data["total_amount"]) )
          => doc.invoice_data["requires_manual_review"] = Bool(TRUE) )

\* The minimum an oracle output must hold: an invoice identifier with a total
\* or a vendor name, or a total with a vendor name.
HasMinimumFields(f) ==
    \/ (Truthy(f.invoice_number) \/ Truthy(f.po_number))
          /\ (~IsNone(f.total_amount) \/ Truthy(f.vendor_name))
    \/ ~IsNone(f.total_amount) /\ Truthy(f.vendor_name)

\* The result carries the output of the oracle that answered last.
CarriesAnswer ==
    /\ result.ai_extraction # None
    /\ ReadFields(result.ai_extraction) = oracle.fields

\* C11: the call of an attempted oracle tier ends as won exactly when its
\* output has an invoice identifier and a total or a vendor name, or has a
\* total and a vendor name.  A vision output that has them ends extract()
\* with that output as the vision tier's result and no text call; any other
\* vision answer, a null one included, starts the text call when the text
\* tier is enabled and the text is not blank, and the local extractor
\* otherwise.  A text output that has them ends extract() with that output
\* as the text tier's result; any other text answer ends it with the local
\* extractor's.
C11_TierWinsIffViable ==
    /\ oracle.tier = "vision" =>
          /\ log[2] = CallEnded("vision", HasMinimumFields(oracle.fields))
          /\ HasMinimumFields(oracle.fields) =>
                /\ pc = "done" /\ Len(log) = 2 /\ CarriesAnswer
                /\ result.tier_used \in {ExtractionTier.VISION,
                                         ExtractionTier.VISION_WITH_VALIDATION}
          /\ ~HasMinimumFields(oracle.fields) =>
                /\ result.ai_extraction = None
                /\ IF svc.enable_text_llm /\ inp.raw_text # Str("   ")
                   THEN pc = "tier1" /\ log[3] = CallStarted("text") /\ Len(log) = 3
                   ELSE /\ pc = "done" /\ log[3] = RegexUsed /\ Len(log) = 3
                        /\ result.tier_used = ExtractionTier.REGEX
    /\ oracle.tier = "text" =>
          /\ pc = "done"
          /\ log[Len(log) - (IF HasMinimumFields(oracle.fields) THEN 0 ELSE 1)]
                = CallEnded("text", HasMinimumFields(oracle.fields))
          /\ HasMinimumFields(oracle.fields) =>
                /\ CarriesAnswer
                /\ result.tier_used \in {ExtractionTier.TEXT_LLM,
                                         ExtractionTier.TEXT_LLM_WITH_VALIDATION}
          /\ ~HasMinimumFields(oracle.fields) =>
                /\ result.ai_extraction = None
                /\ log[Len(log)] = RegexUsed
                /\ result.tier_used = ExtractionTier.REGEX

\* C11 witness: the vision tier won on a purchase-order number and a vendor
\* name alone.
C11_Witness ==
    /\ oracle.tier = "vision" /\ pc = "done"
    /\ IsNone(oracle.fields.invoice_number) /\ IsNone(oracle.fields.total_amount)
    /\ log = <<CallStarted("vision"), CallEnded("vision", TRUE)>>

\* An oracle tier won in the running extract().
TierWonCall(tier) == \E i \in 1..Len(log) : log[i] = CallEnded(tier, TRUE)

\* The confidence the local extractor computes for the text of the running
\* extract(), from the fields and line items it found in it
LocalConfidence ==
    CalculateConfidence(
        IF ~Truthy(inp.regex_fields["invoice_number"]) /\ Truthy(inp.regex_fields["po_number"])
        THEN PoPrefixed(inp.regex_fields["po_number"])
        ELSE inp.regex_fields["invoice_number"],
        Or(inp.regex_fields["order_date"], inp.regex_fields["invoice_date"]),
        inp.regex_fields["total"], inp.regex_fields["vendor_name"], inp.line_items)

\* C12: when extract() returns and neither oracle tier won (it was disabled,
\* skipped, raised, or answered with a non-viable output), the result has
\* tier_used = regex_parser, no oracle extraction and no cross-validation,
\* and its final_confidence is the confidence score the local extractor
\* computed for the same text.
C12_Tier0WhenNoTierWins ==
    (pc = "done" /\ ~TierWonCall("vision") /\ ~TierWonCall("text")) =>
        /\ result.tier_used = ExtractionTier.REGEX
        /\ result.ai_extraction = None
        /\ result.cross_validation = None
        /\ result.final_confidence = inp.regex_fields["confidence_score"]
        /\ result.final_confidence = Float(LocalConfidence)
        /\ log[Len(log)] = RegexUsed

\* C12 witness: both oracle tiers were attempted and lost, and the result
\* carries a local confidence that is not the default.
C12_Witness ==
    /\ pc = "done" /\ TierLost("vision") /\ TierLost("text")
    /\ result.tier_used = ExtractionTier.REGEX
    /\ result.final_confidence.n >= 850

\* The fragments with which extract() opens the reason of a failed text tier
TextReasonMarks == {" | Text LLM: ", " | Text LLM error: "}

\* fallback_reason is a non-empty string with a reason for the tier: for the
\* vision tier the reason it opens with, for the text tier the reason that
\* follows the text tier's mark.
HasReasonFor(tier, reason) ==
    /\ ~IsNone(reason)
    /\ reason.s # <<>> /\ \A i \in 1..Len(reason.s) : reason.s[i] # ""
    /\ IF tier = "vision"
       THEN reason.s[1] \notin TextReasonMarks
       ELSE \E i \in 1..(Len(reason.s) - 1) : reason.s[i] \in TextReasonMarks

\* C13: when extract() returns, for each oracle tier that did not win
\* (disabled, skipped, raised, or answered with a non-viable output) the
\* result's fallback_reason is a non-empty string that includes a reason for
\* that tier.
C13_EveryLosingTierHasReason ==
    pc = "done" =>
        \A tier \in {"vision", "text"} :
            ~TierWonCall(tier) => HasReasonFor(tier, result.fallback_reason)

\* When extract() returns, each oracle tier that was attempted and did not
\* win has its reason in fallback_reason.
C13_EveryFailedTierHasReason ==
    pc = "done" =>
        \A tier \in {"vision", "text"} :
            TierLost(tier) => HasReasonFor(tier, result.fallback_reason)

-----------------------------------------------------------------------------
(* The registered vendor profile *)

\* The registry is the built-in profiles followed by one registered global
\* profile with the vendor pattern "(?i)MGD|Master Gutters".
MGDProfileRegistered ==
    /\ Len(profiles) = 3
    /\ SubSeq(profiles, 1, 2) = BuiltinProfiles
    /\ profiles[3].vendor_pattern = Str("(?i)MGD|Master Gutters")
    /\ profiles[3].organization_id = NoOrg

\* C14: in an engine holding its built-in profiles and one registered
\* profile with vendor_pattern "(?i)MGD|Master Gutters" and no organization,
\* select_profile(vendor_name = "MGD Construction Services") with no profile
\* id and no organization returns the registered profile, and not a profile
\* flagged as a default.
C14_RegisteredVendorProfileWins ==
    ( /\ MGDProfileRegistered
      /\ sel.op = "select"
      /\ sel.vendor_name = Str("MGD Construction Services")
      /\ sel.profile_id = NoneS /\ sel.organization_id = NoOrg )
    => /\ sel.out.raised = ""
       /\ sel.out.profile = profiles[3]
       /\ sel.out.profile.id # "default-subcontractor"

-----------------------------------------------------------------------------
(* The date transforms as a state machine: _next_weekday called on a date,  *)
(* and _resolve_value_traced called for a rule on a date target.            *)

\* days after StartDay that a base date is drawn from
MaxDays == 13

\* Base dates: two weeks from StartDay, every weekday twice.
BaseDays == StartDay..(StartDay + MaxDays)

\* Rules on due_date with a date transform: with or without a primary
\* source, a fallback source and a transform source.
TransformRules ==
    { FieldMappingRule("due_date", src, fb, None, tr, ts, FALSE) :
        src \in {NoneS, "due_date"}, fb \in {NoneS, "approved_date"},
        tr \in {"next_friday", "next_monday", "add_30_days"},
        ts \in {NoneS, "order_date"} }

\* Texts that differ in the order date, the due date and the approval date.
TransformFound ==
    { Found(Str("PO1"), None, od, dd, ad, Dec(15000), Str("MGD Construction Services")) :
        od \in {None} \cup { Date(d) : d \in BaseDays },
        dd \in {None, Date(DayNumber(2024, 3, 12))},
        ad \in {None, Date(DayNumber(2024, 3, 1))} }

\* The calls made: _next_weekday on a base date for Monday or Friday, and
\* _resolve_value_traced for a rule and the fields of a text
TransformArgs ==
    { [via |-> "next_weekday", d |-> d, weekday |-> weekday] :
        d \in BaseDays, weekday \in {0, 4} }
    \cup { [via |-> "resolve", rule |-> rule, raw_fields |-> raw_fields] :
                rule \in TransformRules, raw_fields \in TransformFound }

TransformInit ==
    /\ profiles = BuiltinProfiles
    /\ today = StartDay
    /\ sel = NoSelect
    /\ args \in TransformArgs
    /\ res = NoCall
    /\ prev = NoCall
    /\ CascadeIdle

\* MappingEngine._next_weekday(d, weekday), as next_friday and next_monday call it
NextWeekdayCall ==
    /\ args.via = "next_weekday" /\ res.op = "none"
    /\ res' = [op |-> "next_weekday", d |-> args.d, weekday |-> args.weekday,
               out |-> NextWeekday(args.d, args.weekday)]
    /\ UNCHANGED <<profiles, today, sel, args, prev, cvars>>

\* _resolve_value_traced(rule, raw_fields) for a rule with a date transform
ResolveCall ==
    /\ args.via = "resolve" /\ res.op = "none"
    /\ res' = [op |-> "resolve", rule |-> args.rule, raw_fields |-> args.raw_fields,
               now |-> today, out |-> ResolveValueTraced(args.rule, args.raw_fields, today)]
    /\ UNCHANGED <<profiles, today, sel, args, prev, cvars>>

TransformNext == NextWeekdayCall \/ ResolveCall \/ Tick

SpecTransform == TransformInit /\ [][TransformNext]_vars

-----------------------------------------------------------------------------
(* Properties of the date transforms *)

\* The base date of a resolve call: the transform source field when the rule
\* names one and the text has it, else the primary source, else the fallback
\* source, else the day of the call.
BaseOf(call) ==
    LET r == call.rule
        f == call.raw_fields
    IN  IF r.date_transform_source # NoneS /\ ~IsNone(f[r.date_transform_source])
        THEN f[r.date_transform_source].n
        ELSE IF r.source_field # NoneS /\ ~IsNone(f[r.source_field])
        THEN f[r.source_field].n
        ELSE IF r.fallback_source # NoneS /\ ~IsNone(f[r.fallback_source])
        THEN f[r.fallback_source].n
        ELSE call.now

\* The weekday a transform names: 4 for next_friday, 0 for next_monday.
NamedWeekday(transform) == IF transform = "next_friday" THEN 4 ELSE 0

\* `out` is the nearest day after `base` on `weekday`.
StrictlyNext(base, weekday, out) ==
    /\ Weekday(out) = weekday
    /\ out - base \in 1..7
    /\ (Weekday(base) = 4 /\ weekday = 4) => out = base + 7
    /\ (Weekday(base) = 5 /\ weekday = 4) => out = base + 6

\* C15: next_friday and next_monday return a date on the named weekday that
\* lies between 1 and 7 days after the base date, never the base date
\* itself; next_friday of a Friday is the base date + 7 days and of a
\* Saturday the base date + 6 days.
C15_NextWeekdayStrictlyFuture ==
    /\ res.op = "next_weekday" => StrictlyNext(res.d, res.weekday, res.out)
    /\ (res.op = "resolve" /\ res.rule.date_transform \in {"next_friday", "next_monday"}) =>
          /\ res.out.value.t = "date"
          /\ StrictlyNext(BaseOf(res), NamedWeekday(res.rule.date_transform), res.out.value.n)

\* C15 witness: next_friday of Friday 2024-03-08 gave Friday 2024-03-15.
C15_Witness ==
    /\ res.op = "next_weekday" /\ res.weekday = 4
    /\ res.d = DayNumber(2024, 3, 8) /\ res.out = DayNumber(2024, 3, 15)

\* What each transform adds to its base date
Transformed(transform, base) ==
    CASE transform = "add_30_days" -> base + 30
      [] OTHER -> CHOOSE out \in (base + 1)..(base + 7) :
                      Weekday(out) = NamedWeekday(transform)

\* C16: for a rule with a date transform, the transform is applied to the
\* value of the transform's source field when the text has it, else to the
\* value already resolved from the primary or the fallback source, else to
\* today's date; a due_date rule with next_friday sourced from order_date,
\* on a text with order_date 2024-03-06 and no due date, resolves to
\* 2024-03-08.
C16_TransformBaseDate ==
    res.op = "resolve" =>
        /\ res.out.value = Date(Transformed(res.rule.date_transform, BaseOf(res)))
        /\ ( /\ res.rule.date_transform = "next_friday"
             /\ res.rule.date_transform_source = "order_date"
             /\ res.raw_fields["order_date"] = Date(DayNumber(2024, 3, 6))
             /\ IsNone(res.raw_fields["due_date"]) )
           => res.out.value = Date(DayNumber(2024, 3, 8))

\* C16 witness: the built-in due_date rule on a text with order_date
\* 2024-03-06, no due date, resolved to 2024-03-08.
C16_Witness ==
    /\ res.op = "resolve"
    /\ res.rule = FieldMappingRule("due_date", "due_date", NoneS, None, "next_friday", "order_date", FALSE)
    /\ res.raw_fields["order_date"] = Date(DayNumber(2024, 3, 6))
    /\ IsNone(res.raw_fields["due_date"])
    /\ res.out.value = Date(DayNumber(2024, 3, 8))

-----------------------------------------------------------------------------
(* The confidence score as a state machine: _calculate_confidence called on *)
(* what was found in a text, and called again after one more field or one   *)
(* more line item was found.                                                *)

\* most line items of a scored extraction
MaxScoredItems == 3

\* Line-item lists of complete items (quantity 1.00, total 100.00) and
\* incomplete ones (total 50.00 only)
ScoredItemLists ==
    UNION { { [i \in 1..n |-> ParsedItem(i, complete[i])] : complete \in [1..n -> BOOLEAN] } :
                n \in 0..MaxScoredItems }

\* The values a weighted field is found with; a total may be 0.00, equal to
\* the line-item sum, or one cent above it.
ScoredValues ==
    [invoice_number |-> {Str("INV1")},
     invoice_date |-> {Date(StartDay)},
     total |-> {Dec(0), Dec(10000), Dec(10001), Dec(15001)},
     vendor_name |-> {Str("MGD Construction Services")}]

WeightedFields == {"invoice_number", "invoice_date", "total", "vendor_name"}

\* What was found in a text: each weighted field found or not, and the line items
ScoredExtractions ==
    { [via |-> "confidence",
       fields |-> [invoice_number |-> inv, invoice_date |-> dt, total |-> tot,
                   vendor_name |-> ven],
       line_items |-> items] :
        inv \in {None} \cup ScoredValues["invoice_number"],
        dt \in {None} \cup ScoredValues["invoice_date"],
        tot \in {None} \cup ScoredValues["total"],
        ven \in {None} \cup ScoredValues["vendor_name"],
        items \in ScoredItemLists }

\* One _calculate_confidence call: its arguments and the score it returned
ConfidenceCall(fields, line_items, added) ==
    [op |-> "confidence", fields |-> fields, line_items |-> line_items, added |-> added,
     out |-> CalculateConfidence(fields["invoice_number"], fields["invoice_date"],
                                 fields["total"], fields["vendor_name"], line_items)]

ConfidenceInit ==
    /\ profiles = BuiltinProfiles
    /\ today = StartDay
    /\ sel = NoSelect
    /\ args \in ScoredExtractions
    /\ res = NoCall
    /\ prev = NoCall
    /\ CascadeIdle

\* _calculate_confidence on the extraction
ScoreCall ==
    /\ res.op = "none"
    /\ res' = ConfidenceCall(args.fields, args.line_items, "none")
    /\ UNCHANGED <<profiles, today, sel, args, prev, cvars>>

\* _calculate_confidence on the last extraction with one missing field found
ScoreWithField ==
    /\ res.op = "confidence"
    /\ \E f \in WeightedFields :
          /\ IsNone(res.fields[f])
          /\ \E v \in ScoredValues[f] :
                res' = ConfidenceCall([res.fields EXCEPT ![f] = v], res.line_items, f)
    /\ prev' = res
    /\ UNCHANGED <<profiles, today, sel, args, cvars>>

\* _calculate_confidence on the last extraction with one more complete line item
ScoreWithLineItem ==
    /\ res.op = "confidence"
    /\ Len(res.line_items) < MaxScoredItems
    /\ res' = ConfidenceCall(res.fields,
                             Append(res.line_items, ParsedItem(Len(res.line_items) + 1, TRUE)),
                             "line_item")
    /\ prev' = res
    /\ UNCHANGED <<profiles, today, sel, args, cvars>>

ConfidenceNext == ScoreCall \/ ScoreWithField \/ ScoreWithLineItem

SpecConfidence == ConfidenceInit /\ [][ConfidenceNext]_vars

-----------------------------------------------------------------------------
(* Properties of the confidence score *)

\* The line items of a call that have both a quantity and a line total
FullyPopulated(call) ==
    { i \in 1..Len(call.line_items) :
        ~IsNone(call.line_items[i]["quantity"]) /\ ~IsNone(call.line_items[i]["line_total"]) }

\* The sum of the line-item totals of a call, in cents
LineItemSum(call) == SumCents(call.line_items, 1)

\* The weights of a call, in thousandths times the number of line items (1
\* without line items): 0.25, 0.15, 0.25, 0.15 for the fields in `found`,
\* 0.20 times the fraction of fully populated line items, 0.05 when `bonus`.
WeightedSum(call, found, bonus) ==
    LET n == IF call.line_items = <<>> THEN 1 ELSE Len(call.line_items)
        sum == n * ( (IF "invoice_number" \in found THEN 250 ELSE 0)
                   + (IF "invoice_date" \in found THEN 150 ELSE 0)
                   + (IF "total" \in found THEN 250 ELSE 0)
                   + (IF "vendor_name" \in found THEN 150 ELSE 0)
                   + (IF bonus THEN 50 ELSE 0) )
               + 200 * Cardinality(FullyPopulated(call))
    IN  [n |-> n, sum |-> IF sum > 1000 * n THEN 1000 * n ELSE sum]

\* The fields of a call that are not None
FoundFields(call) == { f \in WeightedFields : ~IsNone(call.fields[f]) }

\* The fields of a call that are not None and, for the total, not zero
NonZeroFields(call) == { f \in WeightedFields : Truthy(call.fields[f]) }

\* A total was found and is within one cent of the line-item sum.
TotalWithinCent(call) ==
    /\ ~IsNone(call.fields["total"]) /\ call.line_items # <<>>
    /\ Abs(call.fields["total"].n - LineItemSum(call)) <= 1

\* A non-zero total and the line-item sum differ, as doubles, by less than 0.01.
TotalMatchesSum(call) ==
    /\ Truthy(call.fields["total"]) /\ call.line_items # <<>>
    /\ FloatDiffBelowCent(call.fields["total"].n, LineItemSum(call))

\* Invoice number, total and vendor are found, with one complete line item
\* whose total is the invoice total.
CompleteInvoice(call) ==
    /\ {"invoice_number", "total", "vendor_name"} \subseteq FoundFields(call)
    /\ Len(call.line_items) = 1 /\ FullyPopulated(call) = {1}
    /\ call.line_items[1]["line_total"] = call.fields["total"]

\* The score is in [0,1], and at least 0.85 for a complete invoice.
ScoreInRange(call) ==
    /\ call.out \in 0..1000
    /\ CompleteInvoice(call) => call.out >= 850

-----------------------------------------------------------------------------
(* Cross-validation as a state machine: validate() called on a viable       *)
(* oracle extraction and the output of parse_with_line_items.               *)

\* The oracle extractions validate() is called on: those the viability check
\* lets through.  The oracle may report no confidence, or 0.
ValidatedExtractions ==
    { e \in { AIInvoiceExtraction([invoice_number |-> inv, po_number |-> po,
                                   vendor_name |-> ven, total_amount |-> tot,
                                   ai_confidence |-> c]) :
                inv \in {None, Str("INV1"), Str("INV2")},
                po \in {None, Str("PO1"), Str("PO2")},
                ven \in {None, Str("MGD Construction Services")},
                tot \in {None, Float(50000), Float(100000)},
                c \in {None, Float(0), Float(500), Float(900)} } :
        IsValidExtraction(e) }

\* What the patterns found in the text the oracle read
ValidatedFound ==
    { Found(po, inv, None, None, None, tot, ven) :
        po \in {None, Str("PO1")}, inv \in {None, Str("INV1")},
        tot \in {None, Dec(50000)},
        ven \in {None, Str("MGD Construction Services")} }

\* The line items extracted from that text: none, one of 100.00, or one of
\* 100.00 and one of 50.00
ValidatedItemLists == { [i \in 1..n |-> ParsedItem(i, i = 1)] : n \in 0..(MaxItems + 1) }

ValidationInit ==
    /\ profiles = BuiltinProfiles
    /\ today = StartDay
    /\ sel = NoSelect
    /\ args \in { [via |-> "validate", ai_result |-> e, found |-> f,
                   regex_fields |-> ParseWithLineItems(f, items), regex_line_items |-> items] :
                    e \in ValidatedExtractions, f \in ValidatedFound,
                    items \in ValidatedItemLists }
    /\ res = NoCall
    /\ prev = NoCall
    /\ CascadeIdle

\* The local parser on the text: parse_with_line_items(text), whose output
\* extract() hands to validate(), and parse(text) of the direct path
ParseCall ==
    /\ prev.op = "none"
    /\ prev' = [op |-> "parse", found |-> args.found, line_items |-> args.regex_line_items,
                raw_fields |-> ParseWithLineItems(args.found, args.regex_line_items),
                data |-> Parse(args.found, args.regex_line_items)]
    /\ UNCHANGED <<profiles, today, sel, args, res, cvars>>

\* validate(ai_result, regex_fields, regex_line_items): the result, and the
\* final confidence before it is rounded into the result
ValidateCall ==
    /\ prev.op = "parse"
    /\ res.op = "none"
    /\ res' = [op |-> "validate",
               out |-> Validate(args.ai_result, args.regex_fields, args.regex_line_items),
               final |-> FinalOf(args.ai_result,
                                 FieldValidations(args.ai_result, args.regex_fields))]
    /\ UNCHANGED <<profiles, today, sel, args, prev, cvars>>

ValidationNext == ParseCall \/ ValidateCall

SpecValidation == ValidationInit /\ [][ValidationNext]_vars

-----------------------------------------------------------------------------
(* Properties of cross-validation, on the call recorded in res *)

\* The compared fields for which both sources have a value and the values
\* do not match
MismatchedFields ==
    { f \in DOMAIN AiToComparable(args.ai_result) :
        /\ ~IsNone(AiToComparable(args.ai_result)[f])
        /\ ~IsNone(RegexToComparable(args.regex_fields)[f])
        /\ ~ValuesMatch(f, AiToComparable(args.ai_result)[f],
                        RegexToComparable(args.regex_fields)[f]) }

\* The compared fields only the oracle has a value for
OracleOnlyFields ==
    { f \in DOMAIN AiToComparable(args.ai_result) :
        /\ ~IsNone(AiToComparable(args.ai_result)[f])
        /\ IsNone(RegexToComparable(args.regex_fields)[f]) }

CriticalFields == {"invoice_number", "total_amount", "vendor_name", "invoice_date"}

\* 0.6 c + 0.4 score + 0.05 when `all_match` + min(0.02 k, 0.06) for k
\* oracle-only fields, clamped to [0,1]: thousandths, as a quotient
CombinedConfidence(c, score, all_match, k) ==
    Clamp([num |-> 6 * c * score.den + 4000 * score.num
                    + 10 * score.den * ( (IF all_match THEN 50 ELSE 0)
                                        + (IF 20 * k < 60 THEN 20 * k ELSE 60) ),
           den |-> 10 * score.den])

\* Two quotients are equal.
SameQuotient(p, q) == p.num * q.den = q.num * p.den

\* C19: when the oracle reports a confidence, the final confidence of
\* validate() is 0.6 times that confidence plus 0.4 times the validation
\* score, plus 0.05 when no critical field is mismatched, whatever the other
\* fields are, plus 0.02 for each oracle-only field up to 0.06, clamped to
\* [0,1].
C19_FinalConfidenceFormula ==
    (res.op = "validate" /\ ~IsNone(args.ai_result.ai_confidence)) =>
        SameQuotient(res.final,
                     CombinedConfidence(args.ai_result.ai_confidence.n,
                                        ValidationScore(res.out.field_validations),
                                        MismatchedFields \cap CriticalFields = {},
                                        Cardinality(OracleOnlyFields)))

\* When the oracle reports a confidence other than 0, the final confidence
\* is that formula with the 0.05 given when no compared field at all is
\* mismatched and some field matches.
C19_BonusWhenNoFieldMismatched ==
    (res.op = "validate" /\ Truthy(args.ai_result.ai_confidence)) =>
        SameQuotient(res.final,
                     CombinedConfidence(args.ai_result.ai_confidence.n,
                                        ValidationScore(res.out.field_validations),
                                        MismatchedFields = {} /\ res.out.matching_fields > 0,
                                        Cardinality(OracleOnlyFields)))

\* C20: recommended_review is true exactly when the final confidence is
\* below 0.7 or a critical field has a value from both sources and the two
\* do not match; and when a critical field disagrees so, the notes of the
\* result have an entry that names the disagreeing critical fields.
C20_ReviewIffLowOrDisagreement ==
    res.op = "validate" =>
        /\ res.out.recommended_review
              <=> ( \/ res.final.num < 700 * res.final.den
                    \/ MismatchedFields \cap CriticalFields # {} )
        /\ MismatchedFields \cap CriticalFields # {} =>
              \E i \in 1..Len(res.out.notes) :
                  /\ res.out.notes[i].text
                        = "Manual review recommended: critical field disagreements on "
                  /\ Elems(res.out.notes[i].cited) = MismatchedFields \cap CriticalFields

\* C20 witness: the oracle's total 1000.00 against the extractor's 500.00,
\* with a final confidence of at least 0.7: review is recommended and a note
\* names total_amount.
C20_Witness ==
    /\ res.op = "validate"
    /\ args.ai_result.total_amount = Float(100000)
    /\ args.regex_fields["total"] = Dec(50000)
    /\ res.final.num >= 700 * res.final.den
    /\ res.out.recommended_review
    /\ \E i \in 1..Len(res.out.notes) : res.out.notes[i].cited = <<"total_amount">>

\* The compared fields both sources have a value for, with matching values
MatchedFields ==
    { f \in DOMAIN AiToComparable(args.ai_result) :
        /\ ~IsNone(AiToComparable(args.ai_result)[f])
        /\ ~IsNone(RegexToComparable(args.regex_fields)[f])
        /\ ValuesMatch(f, AiToComparable(args.ai_result)[f],
                       RegexToComparable(args.regex_fields)[f]) }

\* The compared fields only the local extractor has a value for
ExtractorOnlyFields ==
    { f \in DOMAIN AiToComparable(args.ai_result) :
        /\ IsNone(AiToComparable(args.ai_result)[f])
        /\ ~IsNone(RegexToComparable(args.regex_fields)[f]) }

\* The sum of the weights of a set of fields, in hundredths
RECURSIVE WeightOf(_)
WeightOf(fields) ==
    IF fields = {} THEN 0
    ELSE LET f == CHOOSE g \in fields : TRUE
         IN  FieldWeight(f) + WeightOf(fields \ {f})

\* The validation score in which a matched field earns its weight and an
\* oracle-only field `credit` two-hundredths of its weight, over the weight
\* of the fields either source has a value for; 0.5 when there is none
CreditedScore(credit) ==
    IF WeightOf(MatchedFields \cup MismatchedFields \cup OracleOnlyFields
                \cup ExtractorOnlyFields) = 0
    THEN [num |-> 1, den |-> 2]
    ELSE [num |-> 2 * WeightOf(MatchedFields) + credit * WeightOf(OracleOnlyFields),
          den |-> 2 * WeightOf(MatchedFields \cup MismatchedFields \cup OracleOnlyFields
                               \cup ExtractorOnlyFields)]

\* A field null in both sources is recorded as a match with no adjustment,
\* and a field only the extractor found as no match with no adjustment.
NullAndExtractorOnlyRecorded ==
    \A i \in 1..Len(res.out.field_validations) :
        LET v == res.out.field_validations[i]
        IN  /\ (IsNone(v.ai_value) /\ IsNone(v.regex_value))
                  => v.match /\ v.confidence_adjustment = 0
            /\ v.field_name \in ExtractorOnlyFields
                  => ~v.match /\ v.confidence_adjustment = 0

\* C21: in the validation score a field null in both sources is a match that
\* adds nothing to numerator or denominator, a field only the oracle found
\* adds half its weight to the numerator, and a field only the local
\* extractor found adds nothing to the numerator.
C21_OracleOnlyPartialCredit ==
    res.op = "validate" =>
        /\ NullAndExtractorOnlyRecorded
        /\ SameQuotient(ValidationScore(res.out.field_validations), CreditedScore(1))

\* In the validation score a field only the oracle found adds nothing to
\* the numerator, like a field only the local extractor found, though half
\* its weight is recorded as its adjustment.
C21_OracleOnlyEarnsNothing ==
    res.op = "validate" =>
        /\ NullAndExtractorOnlyRecorded
        /\ SameQuotient(ValidationScore(res.out.field_validations), CreditedScore(0))
        /\ \A i \in 1..Len(res.out.field_validations) :
              res.out.field_validations[i].field_name \in OracleOnlyFields
                 => res.out.field_validations[i].confidence_adjustment
                        = FieldWeight(res.out.field_validations[i].field_name)

\* The sum of the line totals of the parsed line items, in cents
ParsedLineSum == SumCents(prev.line_items, 1)

\* What was found in the text, had the total been found with the given amount
FoundWithTotal(cents) == [prev.found EXCEPT !["total"] = Dec(cents)]

\* No total was found in the parsed text but line items were
TotalDerived ==
    /\ prev.op = "parse"
    /\ IsNone(prev.found["total"])
    /\ prev.line_items # <<>>

\* C22: when the local extractor finds no total but finds line items, the
\* total is the sum of the line totals, and requires_manual_review is decided
\* as for a found total: confidence below 0.7, or no invoice identifier, or
\* no total; it is what a found total of the same amount gives.
C22_DerivedTotalReviewedAsExtracted ==
    TotalDerived =>
        /\ prev.raw_fields["total"] = Dec(ParsedLineSum)
        /\ prev.data["total_amount"] = Dec(ParsedLineSum)
        /\ prev.raw_fields["requires_manual_review"]
              = Bool(\/ prev.raw_fields["confidence_score"].n < 700
                     \/ IsNone(prev.data["invoice_number"])
                     \/ IsNone(prev.raw_fields["total"]))
        /\ prev.data["requires_manual_review"]
              = Bool(\/ prev.data["confidence_score"].n < 700
                     \/ IsNone(prev.data["invoice_number"])
                     \/ IsNone(prev.data["total_amount"]))
        /\ prev.raw_fields["requires_manual_review"]
              = ParseWithLineItems(FoundWithTotal(ParsedLineSum),
                                   prev.line_items)["requires_manual_review"]
        /\ prev.data["requires_manual_review"]
              = Parse(FoundWithTotal(ParsedLineSum), prev.line_items)["requires_manual_review"]

\* No total found, line totals 100.00 and 50.00: the total is 150.00 and,
\* with invoice number and vendor found, no review is required
C22_Witness ==
    /\ TotalDerived
    /\ Len(prev.line_items) = 2
    /\ prev.line_items[1]["line_total"] = Dec(10000)
    /\ prev.line_items[2]["line_total"] = Dec(5000)
    /\ prev.raw_fields["total"] = Dec(15000)
    /\ prev.data["total_amount"] = Dec(15000)
    /\ prev.raw_fields["requires_manual_review"] = Bool(FALSE)

\* The profile a select_profile call returned is global or scoped to the
\* organization the call named
WithinOrganization ==
    sel.out.profile.organization_id \in {NoOrg, sel.organization_id}

\* C29: select_profile called with organization_id = X never returns a
\* profile scoped to another organization: the profile it returns is global
\* or scoped to X.
C29_OrganizationIsolation ==
    (sel.op = "select" /\ sel.out.raised = "" /\ sel.organization_id # NoOrg)
        => WithinOrganization

\* Unless the explicit profile_id branch returned, the profile select_profile
\* returns for organization X is global or scoped to X.
C29_IsolatedUnlessExplicitId ==
    (sel.op = "select" /\ sel.out.raised = "" /\ sel.organization_id # NoOrg
        /\ sel.out.step # 1)
        => WithinOrganization

-----------------------------------------------------------------------------
(* The profile administration interface (main.py): the create, update and   *)
(* delete handlers and the lookups, as coroutines of one event loop.  A     *)
(* handler runs without interruption up to its first await, the call that   *)
(* persists the change; every engine method is synchronous.  One action is  *)
(* the code between two suspension points.                                  *)

\* The profile ids clients name
AdminIds == {"default-subcontractor", "standard-invoice", "custom-a", "custom-b"}

\* No mutation is suspended at its await
NoRequest == [op |-> "none"]

\* The guard as it would be if it tested the "default-" prefix alone.
ProtectedIdDefaultOnly(profile_id) == profile_id = "default-subcontractor"

\* profile_id.startswith("default-") or profile_id.startswith("standard-")
ProtectedId(profile_id) == profile_id \in {"default-subcontractor", "standard-invoice"}

\* MappingProfileCreateRequest: the fields the profile model carries
CreateRequests ==
    [vendor_pattern : {None, Str("(?i)MGD|Master Gutters")}, is_default : BOOLEAN,
     organization_id : {NoOrg, 0}]

\* MappingProfileUpdateRequest: an absent field is None
UpdateRequests ==
    [vendor_pattern : {None, Str("acme")}, is_default : {None, Bool(TRUE), Bool(FALSE)}]

\* The assignments as they would stand if the handler were suspended after
\* the vendor_pattern assignment.
ApplyUpdatesUpToPattern(existing, request) ==
    [existing EXCEPT !.vendor_pattern = IF IsNone(request.vendor_pattern) THEN @
                                        ELSE request.vendor_pattern]

\* update_mapping_profile, lines 945-955: the in-place assignments to the
\* registered profile
ApplyUpdates(existing, request) ==
    [existing EXCEPT !.vendor_pattern = IF IsNone(request.vendor_pattern) THEN @
                                        ELSE request.vendor_pattern,
                     !.is_default = IF IsNone(request.is_default) THEN @
                                    ELSE request.is_default.n = 1]

\* delete_mapping_profile up to its await: the status it is about to answer
\* with (0 while the deletion is still to be persisted) and the registry
DeleteOutcome(reg, profile_id) ==
    IF ProtectedId(profile_id) THEN [status |-> 400, registry |-> reg]
    ELSE IF ~Registered(reg, profile_id) THEN [status |-> 404, registry |-> reg]
    ELSE [status |-> 0, registry |-> RemoveFrom(reg, profile_id)]

\* The response of an administration request
Response(op, profile_id, status, changed) ==
    [op |-> op, profile_id |-> profile_id, status |-> status, changed |-> changed]

\* sel holds the last lookup and res the last administration response,
\* whichever of the two came last; the other is cleared.
AdminInit ==
    /\ profiles = BuiltinProfiles
    /\ today = StartDay
    /\ sel = NoSelect
    /\ args = NoRequest
    /\ res = NoCall
    /\ prev = NoCall
    /\ CascadeIdle

\* The ids uuid4 gives to created profiles
CreatedIds == {"custom-a"}

\* create_mapping_profile up to `await save_profile_to_db`; the uuid makes
\* the id one that is not registered
CreateMappingProfile ==
    /\ args.op = "none"
    /\ \E id \in CreatedIds, request \in CreateRequests :
          /\ ~Registered(profiles, id)
          /\ profiles' = RegisterInto(profiles,
                             InvoiceMappingProfile(id, request.vendor_pattern, request.is_default,
                                                   request.organization_id, <<>>))
          /\ args' = [op |-> "create", profile_id |-> id, request |-> request]
    /\ sel' = NoSelect
    /\ UNCHANGED <<today, res, prev, cvars>>

\* update_mapping_profile up to `await save_profile_to_db`, or its 404
UpdateMappingProfile ==
    /\ args.op = "none"
    /\ \E profile_id \in AdminIds, request \in UpdateRequests :
          IF ~Registered(profiles, profile_id)
          THEN /\ res' = Response("update", profile_id, 404, FALSE)
               /\ sel' = NoSelect
               /\ UNCHANGED <<profiles, args, prev>>
          ELSE /\ profiles' = RegisterInto(profiles,
                                  ApplyUpdates(Lookup(profiles, profile_id), request))
               /\ args' = [op |-> "update", profile_id |-> profile_id, request |-> request]
               /\ prev' = Lookup(profiles, profile_id)
               /\ sel' = NoSelect
               /\ UNCHANGED res
    /\ UNCHANGED <<today, cvars>>

\* delete_mapping_profile up to `await delete_profile_from_db`, or its 400 or 404
DeleteMappingProfile ==
    /\ args.op = "none"
    /\ \E profile_id \in AdminIds :
          LET outcome == DeleteOutcome(profiles, profile_id)
          IN  /\ profiles' = outcome.registry
              /\ IF outcome.status = 0
                 THEN /\ args' = [op |-> "delete", profile_id |-> profile_id]
                      /\ sel' = NoSelect
                      /\ UNCHANGED res
                 ELSE /\ res' = Response("delete", profile_id, outcome.status,
                                         outcome.registry # profiles)
                      /\ sel' = NoSelect
                      /\ UNCHANGED args
    /\ UNCHANGED <<today, prev, cvars>>

\* The persistence call of the suspended handler returns or raises; the
\* registry is not touched again
PersistReturns ==
    /\ args.op # "none"
    /\ \E status \in {200, 500} : res' = Response(args.op, args.profile_id, status, TRUE)
    /\ args' = NoRequest
    /\ prev' = NoCall
    /\ sel' = NoSelect
    /\ UNCHANGED <<profiles, today, cvars>>

\* get_mapping_profile: get_profile(profile_id)
GetMappingProfile ==
    /\ \E profile_id \in {"standard-invoice", "custom-a"} :
          sel' = [op |-> "get", profile_id |-> profile_id, during |-> args.op,
                  raised |-> "",
                  found |-> Registered(profiles, profile_id),
                  out |-> IF Registered(profiles, profile_id)
                          THEN <<Lookup(profiles, profile_id)>> ELSE <<>>]
    /\ res' = NoCall
    /\ UNCHANGED <<profiles, today, args, prev, cvars>>

\* list_mapping_profiles: list_profiles(organization_id)
ListMappingProfiles ==
    /\ \E organization_id \in {NoOrg, 0} :
          sel' = [op |-> "list", organization_id |-> organization_id, during |-> args.op,
                  raised |-> "",
                  out |-> IF organization_id = NoOrg THEN profiles
                          ELSE SelectSeq(profiles,
                                   LAMBDA p : p.organization_id \in {NoOrg, organization_id})]
    /\ res' = NoCall
    /\ UNCHANGED <<profiles, today, args, prev, cvars>>

\* select_profile as apply_mapping calls it for an extraction request
SelectForMapping ==
    /\ \E organization_id \in {NoOrg, 0} :
          LET selected == SelectProfile(profiles, Str("MGD Construction Services"), NoneS,
                                        organization_id)
          IN  sel' = [op |-> "select", organization_id |-> organization_id,
                      during |-> args.op, raised |-> selected.raised,
                      out |-> <<selected.profile>>]
    /\ res' = NoCall
    /\ UNCHANGED <<profiles, today, args, prev, cvars>>

AdminNext ==
    \/ CreateMappingProfile
    \/ UpdateMappingProfile
    \/ DeleteMappingProfile
    \/ PersistReturns
    \/ GetMappingProfile
    \/ ListMappingProfiles
    \/ SelectForMapping

SpecAdmin == AdminInit /\ [][AdminNext]_vars

-----------------------------------------------------------------------------
(* Properties of the administration interface *)

BuiltinsRegistered ==
    /\ Registered(profiles, "default-subcontractor")
    /\ Registered(profiles, "standard-invoice")

\* C23: after any sequence of create, update and delete requests both
\* built-in profiles are still registered, and a delete request that names a
\* built-in profile is rejected and leaves the registry unchanged.
C23_BuiltinsSurviveAdministration ==
    /\ BuiltinsRegistered
    /\ (res.op = "delete" /\ res.profile_id \in {"default-subcontractor", "standard-invoice"})
          => (res.status = 400 /\ ~res.changed)

\* A delete naming standard-invoice was rejected after that profile was
\* updated and a custom profile created
C23_Witness ==
    /\ res.op = "delete"
    /\ res.profile_id = "standard-invoice"
    /\ res.status = 400
    /\ Len(profiles) = 3
    /\ Lookup(profiles, "standard-invoice").vendor_pattern = Str("acme")

\* The registry holds the whole of the mutation whose handler is suspended
\* at its await: the profile created with every field of the request, the
\* profile updated in every field the request names and in no other, or the
\* profile removed.
WholeMutation ==
    CASE args.op = "create" ->
            /\ Registered(profiles, args.profile_id)
            /\ Lookup(profiles, args.profile_id)
                  = [id |-> args.profile_id, vendor_pattern |-> args.request.vendor_pattern,
                     is_default |-> args.request.is_default,
                     organization_id |-> args.request.organization_id, rules |-> <<>>]
      [] args.op = "update" ->
            /\ Registered(profiles, args.profile_id)
            /\ LET p == Lookup(profiles, args.profile_id)
               IN  /\ p.vendor_pattern = IF IsNone(args.request.vendor_pattern)
                                         THEN prev.vendor_pattern
                                         ELSE args.request.vendor_pattern
                   /\ p.is_default = IF IsNone(args.request.is_default)
                                     THEN prev.is_default
                                     ELSE args.request.is_default = Bool(TRUE)
                   /\ p.id = prev.id
                   /\ p.organization_id = prev.organization_id
                   /\ p.rules = prev.rules
      [] args.op = "delete" -> ~Registered(profiles, args.profile_id)
      [] OTHER -> TRUE

\* What the last lookup returned is what the registry holds: registered
\* profiles as they stand (or the hard-coded fallback of select_profile),
\* for get_profile the registered profile of that id or nothing
LookupSawRegistry ==
    /\ \A i \in 1..Len(sel.out) :
          \/ sel.out[i] \in Elems(profiles)
          \/ sel.op = "select" /\ sel.out[i] = DefaultSubcontractorProfile
    /\ sel.op = "get" =>
          sel.out = IF Registered(profiles, sel.profile_id)
                    THEN <<Lookup(profiles, sel.profile_id)>> ELSE <<>>
    /\ sel.op = "list" =>
          \A p \in Elems(profiles) :
              (sel.organization_id = NoOrg \/ p.organization_id \in {NoOrg, sel.organization_id})
                  => p \in Elems(sel.out)

\* C24: a lookup (select_profile, get_profile, list_profiles) interleaved
\* with a create, update or delete request sees the registry entirely before
\* or entirely after the mutation, never a partly updated profile, and does
\* not fail: at every point where a lookup can run the registry holds the
\* whole mutation, and a lookup made there returned from that registry
\* without raising.
C24_LookupSeesWholeMutation ==
    /\ WholeMutation
    /\ sel.op # "none" => (sel.raised = "" /\ LookupSawRegistry)

\* A lookup for an extraction ran while an update naming both fields was
\* suspended at its await, and returned the updated profile
C24_Witness ==
    /\ args.op = "update"
    /\ ~IsNone(args.request.vendor_pattern)
    /\ ~IsNone(args.request.is_default)
    /\ sel.op = "select"
    /\ sel.during = "update"
    /\ sel.out[1].id = args.profile_id
    /\ sel.out[1] # prev

-----------------------------------------------------------------------------
(* Line-item numbering: _extract_line_items of the local parser, on the     *)
(* lines of the item table, and the conversion of an oracle's line items.   *)
(* Amount parsing: _extract_amount on the text a pattern captured.          *)

\* most lines of an item table, and most line items of an oracle answer
MaxLines == 3

\* A line of the table between header and "Total:" row: blank, a notes line,
\* a line with a quantity-price-total triple, a line the triple pattern
\* matches but whose numbers Decimal rejects (","), or other text
LineKinds == {"blank", "notes", "triple", "invalid", "text"}

Tables == UNION { [1..n -> LineKinds] : n \in 0..MaxLines }

\* The line items an oracle answers with: AILineItem.line_number is what
\* the oracle wrote, 1 when it wrote none
AiItemLists ==
    UNION { { [i \in 1..n |-> [line_number |-> IntV(number[i]), description |-> None,
                               quantity |-> Float(100), unit_price |-> Float(10000),
                               line_total |-> Float(10000)]] :
                number \in [1..n -> 0..MaxLines] } : n \in 0..MaxLines }

\* The loop of lines 727-763 from line i on, with the counter, the items
\* appended so far, and whether desc_buffer holds text
RECURSIVE ExtractFrom(_, _, _, _, _)
ExtractFrom(lines, i, line_number, line_items, buffered) ==
    IF i > Len(lines)
    THEN IF buffered /\ line_items # <<>>
         THEN [line_items EXCEPT ![Len(line_items)]["description"] = Str("Roofing labor")]
         ELSE line_items
    ELSE CASE lines[i] \in {"blank", "notes"} ->
                 ExtractFrom(lines, i + 1, line_number, line_items, buffered)
           [] lines[i] = "triple" ->
                 ExtractFrom(lines, i + 1, line_number + 1,
                     Append(line_items,
                         LineItem([line_number |-> IntV(line_number + 1),
                                   description |-> IF buffered THEN Str("Roofing labor")
                                                   ELSE None,
                                   quantity |-> Dec(100), unit_price |-> Dec(10000),
                                   line_total |-> Dec(10000)])),
                     FALSE)
           [] OTHER -> ExtractFrom(lines, i + 1, line_number, line_items, TRUE)

\* _extract_line_items(text), on the lines of the item table
ExtractLineItems(lines) == ExtractFrom(lines, 1, 0, <<>>, FALSE)

\* Amount texts, as sequences of characters: a body with or without a
\* currency sign, a minus sign or parentheses around it
AmountPrefixes == { <<>>, <<"$">>, <<"(">>, <<"-">>, <<"(", "$">>, <<"-", "$">>, <<"$", "-">> }

AmountBodies ==
    { <<"1", ",", "2", "3", "4", ".", "5", "6">>, <<"1", "2", "3", "4", ".", "5", "6">>,
      <<"8", "2", "1", ".", "7", "6">>, <<"0">>, <<"5">>, <<"1", "2", ".">>, <<".", "5">>,
      <<"1", ".", "2", ".", "3">>, <<",">>, <<"5", " ", "0">>, <<>> }

AmountSuffixes == { <<>>, <<")">>, <<" ">> }

AmountTexts ==
    { a \o b \o c : a \in AmountPrefixes, b \in AmountBodies, c \in AmountSuffixes }

Digits == {"0", "1", "2", "3", "4", "5", "6", "7", "8", "9"}

DigitValue(c) ==
    CASE c = "0" -> 0 [] c = "1" -> 1 [] c = "2" -> 2 [] c = "3" -> 3 [] c = "4" -> 4
      [] c = "5" -> 5 [] c = "6" -> 6 [] c = "7" -> 7 [] c = "8" -> 8 [] c = "9" -> 9

\* str.strip(): without leading and trailing blanks
RECURSIVE StripChars(_)
StripChars(chars) ==
    IF chars = <<>> THEN chars
    ELSE IF Head(chars) = " " THEN StripChars(Tail(chars))
    ELSE IF chars[Len(chars)] = " " THEN StripChars(SubSeq(chars, 1, Len(chars) - 1))
    ELSE chars

\* str.lstrip('-'): without leading minus signs
RECURSIVE LStripMinus(_)
LStripMinus(chars) ==
    IF chars # <<>> /\ Head(chars) = "-" THEN LStripMinus(Tail(chars)) ELSE chars

\* The integer written by a sequence of digits
RECURSIVE DigitsValue(_)
DigitsValue(chars) ==
    IF chars = <<>> THEN 0
    ELSE 10 * DigitsValue(SubSeq(chars, 1, Len(chars) - 1)) + DigitValue(chars[Len(chars)])

\* A Decimal: sign, unscaled digits and number of decimals; or no value
NoDecimal == [valid |-> FALSE, negative |-> FALSE, unscaled |-> 0, scale |-> 0]

\* Decimal(text) for a text of digits, points, minus signs and blanks: an
\* optional sign, digits with at most one point and at least one digit;
\* anything else is InvalidOperation
DecimalOf(chars) ==
    LET negative == chars # <<>> /\ Head(chars) = "-"
        number == IF negative THEN Tail(chars) ELSE chars
        points == { i \in 1..Len(number) : number[i] = "." }
        digits == SelectSeq(number, LAMBDA c : c \in Digits)
    IN  IF /\ \A i \in 1..Len(number) : number[i] \in Digits \cup {"."}
           /\ Cardinality(points) <= 1
           /\ digits # <<>>
        THEN [valid |-> TRUE, negative |-> negative, unscaled |-> DigitsValue(digits),
              scale |-> IF points = {} THEN 0
                        ELSE Len(number) - (CHOOSE i \in points : TRUE)]
        ELSE NoDecimal

\* _extract_amount, from the text the pattern captured: lines 464-474
ExtractAmount(amount_str) ==
    LET matched == StripChars(amount_str)
        cleaned == StripChars(SelectSeq(matched, LAMBDA c : c \notin {",", "$", "(", ")"}))
        unsigned == StripChars(LStripMinus(cleaned))
    IN  IF matched = <<>> \/ unsigned = <<>> THEN NoDecimal
        ELSE DecimalOf(unsigned)


LineItemsInit ==
    /\ profiles = BuiltinProfiles
    /\ today = StartDay
    /\ sel = NoSelect
    /\ args \in { [via |-> "parser", lines |-> t] : t \in Tables }
                \cup { [via |-> "oracle", line_items |-> items] : items \in AiItemLists }
                \cup { [via |-> "amount", amount_str |-> t] : t \in AmountTexts }
    /\ res = NoCall
    /\ prev = NoCall
    /\ CascadeIdle

\* _extract_line_items on the table
ExtractLineItemsCall ==
    /\ args.via = "parser"
    /\ res.op = "none"
    /\ res' = [op |-> "extract_line_items", out |-> ExtractLineItems(args.lines)]
    /\ UNCHANGED <<profiles, today, sel, args, prev, cvars>>

\* The line-item loop of ai_to_invoice_data on the oracle's items
ConvertItemsCall ==
    /\ args.via = "oracle"
    /\ res.op = "none"
    /\ res' = [op |-> "convert_items", out |-> ConvertedItems(args.line_items)]
    /\ UNCHANGED <<profiles, today, sel, args, prev, cvars>>

\* _extract_amount on the captured text
ExtractAmountCall ==
    /\ args.via = "amount"
    /\ res.op = "none"
    /\ res' = [op |-> "extract_amount", out |-> ExtractAmount(args.amount_str)]
    /\ UNCHANGED <<profiles, today, sel, args, prev, cvars>>

LineItemsNext == ExtractLineItemsCall \/ ConvertItemsCall \/ ExtractAmountCall

SpecLineItems == LineItemsInit /\ [][LineItemsNext]_vars

\* The line items of the last call are numbered 1..n in sequence order
NumberedInSequence ==
    \A i \in 1..Len(res.out) : res.out[i]["line_number"] = IntV(i)

\* C25: the line items of every extracted document carry the line numbers
\* 1..n in sequence order, whether they come from the local parser or are
\* converted from an oracle extraction.
C25_LineNumbersInSequence ==
    res.op \in {"extract_line_items", "convert_items"} => NumberedInSequence

\* The line items of the local parser carry the line numbers 1..n in
\* sequence order.
C25_ParserNumbersInSequence ==
    res.op = "extract_line_items" => NumberedInSequence

\* The converted items of an oracle carry the oracle's line numbers, and the
\* position where the oracle wrote 0.
C25_OracleNumbersKept ==
    res.op = "convert_items" =>
        \A i \in 1..Len(res.out) :
            res.out[i]["line_number"]
                = IF args.line_items[i]["line_number"].n = 0 THEN IntV(i)
                  ELSE args.line_items[i]["line_number"]

\* The amount text is written as negative: in parentheses, or with a
\* leading minus sign
WrittenNegative ==
    \/ Head(args.amount_str) = "-"
    \/ Head(args.amount_str) = "(" /\ args.amount_str[Len(args.amount_str)] = ")"

\* The parsed amount is the given number of cents, exactly
IsCents(out, negative, cents) ==
    out = [valid |-> TRUE, negative |-> negative, unscaled |-> cents, scale |-> 2]

\* C26: amount parsing is exact and keeps the sign: "$1,234.56" and
\* "1234.56" give 1234.56, "(821.76)" gives -821.76, and an amount written
\* as negative is parsed as negative.
C26_AmountExactAndSigned ==
    res.op = "extract_amount" =>
        /\ args.amount_str \in { <<"$", "1", ",", "2", "3", "4", ".", "5", "6">>,
                                 <<"1", "2", "3", "4", ".", "5", "6">> }
              => IsCents(res.out, FALSE, 123456)
        /\ args.amount_str = <<"(", "8", "2", "1", ".", "7", "6", ")">>
              => IsCents(res.out, TRUE, 82176)
        /\ (res.out.valid /\ res.out.unscaled # 0 /\ WrittenNegative) => res.out.negative

\* Amount parsing is exact in magnitude and drops the sign: "$1,234.56" and
\* "1234.56" give 1234.56, "(821.76)" gives 821.76, and no amount is parsed
\* as negative.
C26_AmountExactUnsigned ==
    res.op = "extract_amount" =>
        /\ args.amount_str \in { <<"$", "1", ",", "2", "3", "4", ".", "5", "6">>,
                                 <<"1", "2", "3", "4", ".", "5", "6">> }
              => IsCents(res.out, FALSE, 123456)
        /\ args.amount_str = <<"(", "8", "2", "1", ".", "7", "6", ")">>
              => IsCents(res.out, FALSE, 82176)
        /\ ~res.out.negative

\* The rules of the last apply_mapping call that carry a date transform
TransformingRules ==
    { res.rules[i] : i \in { j \in 1..Len(res.rules) : HasTransform(res.rules[j]) } }

SourceValue(call) ==
    IF call.rule.source_field # NoneS /\ ~IsNone(call.raw_fields[call.rule.source_field])
    THEN call.raw_fields[call.rule.source_field]
    ELSE IF call.rule.fallback_source # NoneS
    THEN call.raw_fields[call.rule.fallback_source]
    ELSE None

\* Both the primary or fallback source and the transform's own source hold
\* a value
BothSourcesHold(call) ==
    /\ call.op = "resolve"
    /\ call.rule.date_transform_source # NoneS
    /\ ~IsNone(call.raw_fields[call.rule.date_transform_source])
    /\ ~IsNone(SourceValue(call))

NoOracleConfigured == env.OPENAI_API_KEY \in {NoneS, ""} \/ env.openai # "ok"

\* No oracle call was started in the running or the last extract()
NoOracleCalled ==
    /\ pc \notin {"tier2", "tier1"}
    /\ \A i \in 1..Len(log) : log[i].tier \notin {"vision", "text"}
    /\ oracle = NoAnswer

\* C30: when no oracle is configured (the API key is missing or the client
\* cannot be created), initialize() switches both oracle tiers off, and from
\* then on every extract() returns the Tier 0 result (regex_parser) without
\* calling the vision or the text oracle.
C30_NoOracleMeansTier0 ==
    (svc.initialized /\ NoOracleConfigured) =>
        /\ ~svc.enable_vision
        /\ ~svc.enable_text_llm
        /\ NoOracleCalled
        /\ pc = "done" =>
              /\ result.tier_used = ExtractionTier.REGEX
              /\ result.ai_extraction = None
              /\ log = <<RegexUsed>>

\* With a key but no client, the second extract() of a text returned the
\* Tier 0 result
C30_Witness ==
    /\ svc.initialized
    /\ env.OPENAI_API_KEY = "sk-key"
    /\ env.openai = "Exception"
    /\ svc.total_extractions = 2
    /\ pc = "done"
    /\ inp.raw_text = Str("<text>")
    /\ result.tier_used = ExtractionTier.REGEX
    /\ log = <<RegexUsed>>

====
